---- MODULE Spec2Model ----
(***************************************************************************)
(* Template parser, expander and tree cache of scriggo.                    *)
(*                                                                         *)
(* Two state machines share the variables of the tree cache:               *)
(*   SpecCache  workers that call the cache's Get, Add and Done directly,  *)
(*              as the goroutines a and b of TestCache do;                 *)
(*   Spec       workers that call Parse on one Parser: parsePath and       *)
(*              expand, step by step, over a small set of template files.  *)
(***************************************************************************)
EXTENDS Integers, Sequences, FiniteSets, TLC

VARIABLES
    impl,     \* which Parser of the repository runs: "parser", "template", "program"
    fs,       \* the files the Reader serves: path -> file
    trees,    \* cache.trees:  cache id -> (key -> tree)
    waits,    \* cache.waits:  cache id -> set of keys with a parse in progress
    pc,       \* worker -> position in its code
    arg,      \* worker -> the key (path, ctx) of its current Get / parsePath
    got,      \* worker -> (tree, ok) returned by its latest Get
    held,     \* worker -> keys whose Get returned (nil, false) and not yet Done
    prev,     \* <<worker, key>> of the latest Done that cleared a slot without Add
    stack,    \* worker -> the parsePath frames of its expansion, innermost last
    paths,    \* worker -> expansion.paths, the path stack
    ret,      \* worker -> (tree, err) being returned by parsePath
    outcome,  \* worker -> what its latest Parse returned
    calls,    \* worker -> number of Parse calls it has made
    reads,    \* cache id -> (key -> number of Reader.Read calls)
    fails,    \* cache id -> (key -> number of Done calls that found no tree)
    badDone,  \* a Done was called for a key its caller had not reserved
    fn,       \* the ScrigoFunction under construction
    builder,  \* the FunctionBuilder: labels, gotos, maxRegs, numRegs, scopes, scopeShifts
    result,   \* the latest builder call: its name, arguments, return value, panic
    uses,     \* address -> the operands of the instruction that name registers
    entered,  \* the open EnterScope/EnterStack calls with the counts they found
    bound,    \* label -> the addresses SetLabelAddr has bound it to, in order
    parsing,  \* the state of one ParseSource call: tokens, ancestors, flags, result
    lookup,   \* the state of one Package.LookupFunc call
    texts     \* the Text nodes of one cutSpaces call

vars == <<impl, fs, trees, waits, pc, arg, got, held, prev, stack, paths, ret,
          outcome, calls, reads, fails, badDone, fn, builder, result, uses,
          entered, bound, parsing, lookup, texts>>

builderVars == <<fn, builder, result, uses, entered, bound>>

parseVars == <<stack, paths, ret, outcome, calls, reads, fails, badDone>>

(***************************************************************************)
(* Values.                                                                 *)
(***************************************************************************)

\* A nil *ast.Tree is <<>>, a tree t is <<t>>.
Nil == <<>>

\* An empty Go map.
EmptyMap == <<>>

MapGet(m, k, default) == IF k \in DOMAIN m THEN m[k] ELSE default

MapPut(m, k, v) == [x \in DOMAIN m \cup {k} |-> IF x = k THEN v ELSE m[x]]

Range(s) == {s[i] : i \in DOMAIN s}

\* A cache key.
Key(path, ctx) == <<path, ctx>>

\* ast.NewTree(path, nil, ctx): by names the worker that built the tree,
\* links[i] is the Tree field of the tree's i-th directive node.
\* A tree whose directive nodes have no Tree.
TreeNotExpanded(path, ctx, by, links) ==
    [path |-> path, ctx |-> ctx, by |-> by, links |-> [j \in DOMAIN links |-> <<>>]]

NewTree(path, ctx, by, links) ==
    [path |-> path, ctx |-> ctx, by |-> by, links |-> links]

(***************************************************************************)
(* The function builder: construction.                                     *)
(***************************************************************************)

\* NewScrigoFunction(pkg, name, typ), with the body and the tables empty.
\* Body is the number of instructions and the instructions that are not
\* Nop, by address.
NewScrigoFunction ==
    [Body |-> [len |-> 0, ins |-> EmptyMap], Types |-> <<>>, Variables |-> <<>>,
     NativeFunctions |-> <<>>, ScrigoFunctions |-> <<>>, Literals |-> <<>>,
     Constants |-> [Int |-> <<>>, Float |-> <<>>, String |-> <<>>, General |-> <<>>],
     RegNum |-> [Int |-> 0, Float |-> 0, String |-> 0, General |-> 0],
     Lines |-> EmptyMap]

\* NewBuilder(fn)
NewBuilder ==
    [labels |-> <<>>, gotos |-> EmptyMap, maxRegs |-> EmptyMap,
     numRegs |-> EmptyMap, scopes |-> <<>>, scopeShifts |-> <<>>]

\* No builder call has been made.
NoCall == [call |-> "", args |-> <<>>, val |-> 0, fatal |-> FALSE, n |-> 0]

\* The variables of ParseSource, of LookupFunc and of cutSpaces.
unitVars == <<parsing, lookup, texts>>

\* No ParseSource, no LookupFunc and no cutSpaces call is being made.
UnitsIdle ==
    /\ parsing = <<>>
    /\ lookup = <<>>
    /\ texts = <<>>

BuilderIdle ==
    /\ fn = NewScrigoFunction
    /\ builder = NewBuilder
    /\ result = NoCall
    /\ uses = EmptyMap
    /\ entered = <<>>
    /\ bound = <<>>

(***************************************************************************)
(* The tree cache: Get, Add, Done.                                         *)
(***************************************************************************)

\* The cache a worker uses: ParseTemplate makes a cache of its own for every
\* call, a Parser shares one among its Parse calls.
CacheOf(w) == IF impl = "template" THEN w ELSE "shared"

GetNeverBlocks(c, k) ==
    IF k \in DOMAIN trees[c] THEN "hit" ELSE "miss"

\* Get(path, ctx): a completed entry is a hit; a parse in progress blocks the
\* caller; otherwise the caller reserves the slot.
GetOutcome(c, k) ==
    IF k \in DOMAIN trees[c] THEN "hit"
    ELSE IF k \in waits[c] THEN "block"
    ELSE "miss"

\* The (tree, ok) a returning Get hands to its caller.
GetResult(c, k) ==
    IF k \in DOMAIN trees[c]
    THEN [tree |-> <<trees[c][k]>>, ok |-> TRUE]
    ELSE [tree |-> Nil, ok |-> FALSE]

\* Get reserves the in-progress slot on a miss.
WaitsAfterGet(c, k) ==
    IF GetOutcome(c, k) = "miss" THEN [waits EXCEPT ![c] = @ \cup {k}] ELSE waits

\* Add(path, ctx, tree) stores the tree.
TreesAfterAdd(c, k, t) == [trees EXCEPT ![c] = MapPut(@, k, t)]

DoneKeepsSlot(c, k) == waits

\* Done(path, ctx) clears the in-progress slot.
WaitsAfterDone(c, k) == [waits EXCEPT ![c] = @ \ {k}]

DoneDropsTree(c, k) ==
    [trees EXCEPT ![c] = [x \in DOMAIN @ \ {k} |-> @[x]]]

\* Done leaves the stored trees alone.
TreesAfterDone(c, k) == trees

WakesNobody(c, k) == {}

\* The workers blocked in Get on the key: Add and Done wake them all.
Waiters(c, k) ==
    {v \in DOMAIN pc : pc[v] = "wait" /\ CacheOf(v) = c /\ arg[v] = k}

\* pc after worker w moved to position p and woke the waiters of key k.
Broadcast(w, p, c, k) ==
    [v \in DOMAIN pc |->
        IF v = w THEN p
        ELSE IF v \in Waiters(c, k) THEN "get"
        ELSE pc[v]]

(***************************************************************************)
(* SpecCache: the workers of TestCache.                                    *)
(***************************************************************************)

CacheWorkers == {"a", "b", "c"}

TestKeys ==
    { Key(<<"index.html">>, "HTML"),
      Key(<<"index.html">>, "Text"),
      Key(<<"other.html">>, "HTML") }

InitCache ==
    /\ impl = "parser"
    /\ fs = EmptyMap
    /\ trees = [c \in {"shared"} |-> EmptyMap]
    /\ waits = [c \in {"shared"} |-> {}]
    /\ pc = [w \in CacheWorkers |-> "idle"]
    /\ arg = [w \in CacheWorkers |-> Key(<<"index.html">>, "HTML")]
    /\ got = [w \in CacheWorkers |-> [tree |-> Nil, ok |-> FALSE]]
    /\ held = [w \in CacheWorkers |-> {}]
    /\ prev = <<>>
    /\ stack = [w \in CacheWorkers |-> <<>>]
    /\ paths = [w \in CacheWorkers |-> <<>>]
    /\ ret = [w \in CacheWorkers |-> <<>>]
    /\ outcome = [w \in CacheWorkers |-> <<>>]
    /\ calls = [w \in CacheWorkers |-> 0]
    /\ reads = [c \in {"shared"} |-> EmptyMap]
    /\ fails = [c \in {"shared"} |-> EmptyMap]
    /\ badDone = FALSE
    /\ BuilderIdle
    /\ UnitsIdle

\* "b: get...": a worker with no reservation calls Get.
CallGet(w, k) ==
    /\ pc[w] = "idle"
    /\ pc' = [pc EXCEPT ![w] = "get"]
    /\ arg' = [arg EXCEPT ![w] = k]
    /\ got' = [got EXCEPT ![w] = [tree |-> Nil, ok |-> FALSE]]
    /\ UNCHANGED <<builderVars, unitVars, impl, fs, trees, waits, held, prev, parseVars>>

\* Get finds a parse in progress and waits on the key.
GetBlock(w) ==
    /\ pc[w] = "get"
    /\ GetOutcome(CacheOf(w), arg[w]) = "block"
    /\ pc' = [pc EXCEPT ![w] = "wait"]
    /\ UNCHANGED <<builderVars, unitVars, impl, fs, trees, waits, arg, got, held, prev, parseVars>>

\* "b: get ok": Get returns the tree, or reserves the slot and returns
\* (nil, false).
GetReturn(w) ==
    /\ pc[w] = "get"
    /\ GetOutcome(CacheOf(w), arg[w]) # "block"
    /\ got' = [got EXCEPT ![w] = GetResult(CacheOf(w), arg[w])]
    /\ waits' = WaitsAfterGet(CacheOf(w), arg[w])
    /\ held' = [held EXCEPT ![w] =
                  IF GetOutcome(CacheOf(w), arg[w]) = "miss" THEN @ \cup {arg[w]} ELSE @]
    /\ pc' = [pc EXCEPT ![w] =
                  IF GetOutcome(CacheOf(w), arg[w]) = "miss" THEN "hold" ELSE "idle"]
    /\ UNCHANGED <<builderVars, unitVars, impl, fs, trees, arg, prev, parseVars>>

\* "b: add...", "b: add ok": the holder stores its tree.
CallAdd(w) ==
    /\ pc[w] = "hold"
    /\ arg[w] \notin DOMAIN trees[CacheOf(w)]
    /\ trees' = TreesAfterAdd(CacheOf(w), arg[w],
                              NewTree(arg[w][1], arg[w][2], w, <<>>))
    /\ pc' = Broadcast(w, "hold", CacheOf(w), arg[w])
    /\ UNCHANGED <<builderVars, unitVars, impl, fs, waits, arg, got, held, prev, parseVars>>

\* "a: done...", "a: done ok": the holder releases its reservation.
CallDone(w) ==
    /\ pc[w] = "hold"
    /\ waits' = WaitsAfterDone(CacheOf(w), arg[w])
    /\ trees' = TreesAfterDone(CacheOf(w), arg[w])
    /\ held' = [held EXCEPT ![w] = @ \ {arg[w]}]
    /\ prev' = IF arg[w] \in DOMAIN trees[CacheOf(w)] THEN prev ELSE <<w, arg[w]>>
    /\ pc' = Broadcast(w, "idle", CacheOf(w), arg[w])
    /\ UNCHANGED <<builderVars, unitVars, impl, fs, arg, got, parseVars>>

CacheSteps(keys) ==
    \/ \E w \in CacheWorkers, k \in keys : CallGet(w, k)
    \/ \E w \in CacheWorkers : GetBlock(w)
    \/ \E w \in CacheWorkers : GetReturn(w)
    \/ \E w \in CacheWorkers : CallAdd(w)
    \/ \E w \in CacheWorkers : CallDone(w)

NextCache == CacheSteps(TestKeys)

SpecCache == InitCache /\ [][NextCache]_vars

\* The keys of the runs checked for liveness.
LiveKeys == {Key(<<"index.html">>, "HTML"), Key(<<"index.html">>, "Text")}

NextLive == CacheSteps(LiveKeys)

\* Fair scheduling: a holder goes on to call Done, and a Get that can return
\* again and again does return.
FairSpecCache ==
    /\ InitCache /\ [][NextLive]_vars
    /\ \A w \in CacheWorkers : WF_vars(CallDone(w))
    /\ \A w \in CacheWorkers : WF_vars(GetBlock(w))
    /\ \A w \in CacheWorkers : SF_vars(GetReturn(w))

(***************************************************************************)
(* Paths and errors.  A string is the sequence of its tokens: "/", "..",   *)
(* a name, a literal piece of a message.                                   *)
(***************************************************************************)

Front(s) == SubSeq(s, 1, Len(s) - 1)

\* strings.Contains(text, part)
Contains(text, part) ==
    \E i \in 1..(Len(text) - Len(part) + 1) : SubSeq(text, i, i + Len(part) - 1) = part

\* parent[:strings.LastIndex(parent, "/")+1]
RECURSIVE Dir(_)
Dir(parent) ==
    IF parent = <<>> \/ parent[Len(parent)] = "/" THEN parent ELSE Dir(Front(parent))

\* Removes the last segment of a cleaned path: <<>> when there is none.
RECURSIVE DropSegment(_)
DropSegment(acc) ==
    IF acc = <<>> THEN <<>>
    ELSE IF acc[Len(acc)] = "/" THEN Front(acc)
    ELSE DropSegment(Front(acc))

\* Cleans the tokens toks after the cleaned prefix acc; sep says that a
\* segment starts. The result is <<path>>, or <<>> when ".." leaves the root.
RECURSIVE CleanPath(_, _, _)
CleanPath(acc, sep, toks) ==
    IF toks = <<>> THEN <<acc>>
    ELSE IF Head(toks) = "/" THEN CleanPath(acc, TRUE, Tail(toks))
    ELSE IF Head(toks) = ".."
         THEN IF acc = <<>> THEN <<>> ELSE CleanPath(DropSegment(acc), TRUE, Tail(toks))
    ELSE CleanPath(acc \o (IF sep THEN <<"/">> ELSE <<>>) \o <<Head(toks)>>, FALSE, Tail(toks))

\* toAbsolutePath(dir, path): <<absolute path>>, or <<>> for ErrInvalidPath.
toAbsolutePath(dir, path) == CleanPath(<<>>, TRUE, dir \o path)

NoErr == [kind |-> "nil", text |-> <<>>, path |-> <<>>, msg |-> ""]

ErrInvalidPath == [kind |-> "InvalidPath", text |-> <<>>, path |-> <<>>, msg |-> ""]

ErrNotExist == [kind |-> "NotExist", text |-> <<>>, path |-> <<>>, msg |-> ""]

\* CycleError(text)
CycleError(text) == [kind |-> "Cycle", text |-> text, path |-> <<>>, msg |-> ""]

\* &Error{path, pos, msg}: path <<>> is the empty string.
SyntaxError(path, msg) == [kind |-> "Syntax", text |-> <<>>, path |-> path, msg |-> msg]

\* fmt.Errorf(msg)
Errorf(msg) == [kind |-> "Other", text |-> <<>>, path |-> <<>>, msg |-> msg]

(***************************************************************************)
(* Trees of nodes.                                                         *)
(***************************************************************************)

Node(kind, id, path, ctx, body, cases, els) ==
    [kind |-> kind, id |-> id, path |-> path, ctx |-> ctx,
     body |-> body, cases |-> cases, els |-> els]

Text == Node("Text", 0, <<>>, "", <<>>, <<>>, <<>>)
Extends(id, path, ctx) == Node("Extends", id, path, ctx, <<>>, <<>>, <<>>)
Import(id, path, ctx) == Node("Import", id, path, ctx, <<>>, <<>>, <<>>)
Include(id, path, ctx) == Node("Include", id, path, ctx, <<>>, <<>>, <<>>)
Block(nodes) == Node("Block", 0, <<>>, "", nodes, <<>>, <<>>)
If(then, els) == Node("If", 0, <<>>, "", then, <<>>, els)
For(body) == Node("For", 0, <<>>, "", body, <<>>, <<>>)
ForRange(body) == Node("ForRange", 0, <<>>, "", body, <<>>, <<>>)
Macro(body) == Node("Macro", 0, <<>>, "", body, <<>>, <<>>)
Label(statement) == Node("Label", 0, <<>>, "", <<statement>>, <<>>, <<>>)
Package(declarations) == Node("Package", 0, <<>>, "", declarations, <<>>, <<>>)
Switch(cases) == Node("Switch", 0, <<>>, "", <<>>, cases, <<>>)
TypeSwitch(cases) == Node("TypeSwitch", 0, <<>>, "", <<>>, cases, <<>>)
Select(cases) == Node("Select", 0, <<>>, "", <<>>, cases, <<>>)

\* A source file: bad says that parsing it fails with a syntax error, n is
\* the number of its Extends, Import and Include nodes (their ids are 1..n).
File(bad, n, nodes) == [bad |-> bad, n |-> n, nodes |-> nodes]

\* The node kinds the three expand functions handle.
DirectiveKinds(im) ==
    IF im = "program" THEN {"Import"} ELSE {"Extends", "Import", "Include"}

BodyKindsNoMacro(im) ==
    CASE im = "parser" -> {"For", "ForRange"}
      [] im = "template" -> {"For", "ForRange", "Label"}
      [] OTHER -> {"Package"}

\* The kinds whose Body (Statement, Declarations) expand descends into.
BodyKinds(im) ==
    CASE im = "parser" -> {"For", "ForRange", "Macro"}
      [] im = "template" -> {"For", "ForRange", "Macro", "Label"}
      [] OTHER -> {"Package"}

\* The kinds whose Cases expand descends into.
CaseKinds(im) ==
    CASE im = "parser" -> {"Switch", "TypeSwitch"}
      [] im = "template" -> {"Switch", "TypeSwitch", "Select"}
      [] OTHER -> {}

IfKinds(im) == IF im = "program" THEN {} ELSE {"If"}

\* expand(nodes): the Extends, Import and Include nodes in the order expand
\* reaches them.
RECURSIVE expand(_, _), expandCases(_, _), expandElse(_, _)
expand(im, nodes) ==
    IF nodes = <<>> THEN <<>>
    ELSE LET n == Head(nodes) IN
         (CASE n.kind \in IfKinds(im) -> expand(im, n.body) \o expandElse(im, n.els)
            [] n.kind \in BodyKinds(im) -> expand(im, n.body)
            [] n.kind \in CaseKinds(im) -> expandCases(im, n.cases)
            [] n.kind \in DirectiveKinds(im) -> <<n>>
            [] OTHER -> <<>>)
         \o expand(im, Tail(nodes))

expandCases(im, cases) ==
    IF cases = <<>> THEN <<>>
    ELSE expand(im, Head(cases)) \o expandCases(im, Tail(cases))

expandElse(im, els) ==
    IF els = <<>> THEN <<>>
    ELSE IF els[1].kind = "If" THEN expand(im, els[1].body) \o expandElse(im, els[1].els)
    ELSE IF els[1].kind = "Block" THEN expand(im, els[1].body)
    ELSE <<>>

(***************************************************************************)
(* Spec: concurrent Parse calls.                                           *)
(***************************************************************************)

Workers == {"a", "b"}

\* Parse calls per worker.
MaxParses == 2

Impls == {"parser", "template", "program"}

\* Written paths.
PathA == <<"/", "a">>
PathB == <<"/", "b">>
PathC == <<"/", "c">>
PathX == <<"/", "x">>
GoA == <<"/", "a", ".go">>
GoB == <<"/", "b", ".go">>
GoC == <<"/", "c", ".go">>

\* The predefined packages of a program Parser (Parser.packages).
packages == {<<"fmt">>}

\* /a and /b include each other, /c reaches the cycle from outside.
FsCycle ==
    (PathA :> File(FALSE, 1, <<Text, Include(1, PathB, "HTML")>>))
    @@ (PathB :> File(FALSE, 1, <<If(<<Include(1, PathA, "HTML")>>, <<>>)>>))
    @@ (PathC :> File(FALSE, 1, <<Include(1, <<"b">>, "HTML")>>))

\* Files that expand without error, with directives in every container.
FsNested ==
    (PathA :> File(FALSE, 3,
        <<Text, Extends(1, PathB, "HTML"),
          Macro(<<Include(2, PathC, "HTML")>>),
          ForRange(<<Import(3, <<"c">>, "HTML")>>)>>))
    @@ (PathB :> File(FALSE, 4,
        <<If(<<Text>>, <<If(<<Include(1, PathC, "HTML")>>,
                            <<Block(<<Include(2, PathC, "Script")>>)>>)>>),
          Switch(<< <<Text>>, <<For(<<Include(3, PathC, "Script")>>)>> >>),
          TypeSwitch(<< <<Import(4, PathC, "HTML")>> >>)>>))
    @@ (PathC :> File(FALSE, 0, <<Text, For(<<Text>>)>>))

\* The same with the labelled statements and select statements that
\* ParseTemplateSource produces.
FsLabels ==
    (PathA :> File(FALSE, 2,
        <<Label(For(<<Include(1, PathB, "HTML")>>)),
          Select(<< <<Include(2, PathC, "HTML")>> >>)>>))
    @@ (PathB :> File(FALSE, 1, <<Macro(<<Label(Include(1, PathC, "HTML"))>>)>>))
    @@ (PathC :> File(FALSE, 0, <<Text>>))

\* A path that leaves the root, a missing file.
FsErrors ==
    (PathA :> File(FALSE, 1, <<Include(1, PathB, "HTML")>>))
    @@ (PathB :> File(FALSE, 1, <<For(<<Include(1, <<"..", "/", "x">>, "HTML")>>)>>))
    @@ (PathC :> File(FALSE, 1, <<Import(1, PathX, "HTML")>>))

\* A file with a syntax error.
FsSyntax ==
    (PathA :> File(FALSE, 1, <<Include(1, PathC, "HTML")>>))
    @@ (PathB :> File(FALSE, 2, <<Include(1, PathX, "HTML"), Include(2, PathC, "HTML")>>))
    @@ (PathC :> File(TRUE, 0, <<>>))

\* An extends below the top level: /b can be parsed, but not included.
FsExtends ==
    (PathA :> File(FALSE, 1, <<Include(1, PathB, "HTML")>>))
    @@ (PathB :> File(FALSE, 1, <<Extends(1, PathC, "HTML")>>))
    @@ (PathC :> File(FALSE, 0, <<Text>>))

\* Programs: a predefined package, a package in a file, an empty file.
FsProgram ==
    (GoA :> File(FALSE, 2,
        <<Package(<<Import(1, <<"fmt">>, "None"), Import(2, PathB, "None")>>)>>))
    @@ (GoB :> File(FALSE, 1, <<Package(<<Import(1, <<"fmt">>, "None")>>)>>))
    @@ (GoC :> File(FALSE, 0, <<>>))

\* Programs that import each other, and one that imports a missing package.
FsProgramCycle ==
    (GoA :> File(FALSE, 1, <<Package(<<Import(1, PathB, "None")>>)>>))
    @@ (GoB :> File(FALSE, 1, <<Package(<<Import(1, PathA, "None")>>)>>))
    @@ (GoC :> File(FALSE, 1, <<Package(<<Import(1, PathX, "None")>>)>>))

\* A program that imports a package whose source has a syntax error.
FsProgramSyntax ==
    (GoA :> File(FALSE, 1, <<Package(<<Import(1, PathB, "None")>>)>>))
    @@ (GoB :> File(TRUE, 0, <<>>))
    @@ (GoC :> File(FALSE, 0, <<Package(<<>>)>>))

FileSystems(im) ==
    CASE im = "parser" -> {FsCycle, FsNested, FsErrors, FsSyntax, FsExtends}
      [] im = "template" -> {FsCycle, FsLabels, FsSyntax}
      [] OTHER -> {FsProgram, FsProgramCycle, FsProgramSyntax}

\* The paths Parse is called with, and the context.
ParseArgs(im) == IF im = "program" THEN {GoA, GoB, GoC} ELSE {PathA, PathB, PathC}

ParseContext(im) == IF im = "program" THEN "None" ELSE "HTML"

CacheIds == {"shared"} \cup Workers

Init ==
    /\ impl \in Impls
    /\ fs \in FileSystems(impl)
    /\ trees = [c \in CacheIds |-> EmptyMap]
    /\ waits = [c \in CacheIds |-> {}]
    /\ pc = [w \in Workers |-> "idle"]
    /\ arg = [w \in Workers |-> Key(<<>>, "")]
    /\ got = [w \in Workers |-> [tree |-> Nil, ok |-> FALSE]]
    /\ held = [w \in Workers |-> {}]
    /\ prev = <<>>
    /\ stack = [w \in Workers |-> <<>>]
    /\ paths = [w \in Workers |-> <<>>]
    /\ ret = [w \in Workers |-> [tree |-> Nil, err |-> NoErr]]
    /\ outcome = [w \in Workers |-> [path |-> <<>>, tree |-> Nil, err |-> NoErr]]
    /\ calls = [w \in Workers |-> 0]
    /\ reads = [c \in CacheIds |-> EmptyMap]
    /\ fails = [c \in CacheIds |-> EmptyMap]
    /\ badDone = FALSE
    /\ BuilderIdle
    /\ UnitsIdle

\* The frame of a parsePath call: its key, the directive nodes of its tree
\* in expansion order, the next of them, and their Tree fields.
Frame(k) == [key |-> k, order |-> <<>>, i |-> 1, links |-> <<>>]

Top(w) == stack[w][Len(stack[w])]

SetTop(w, f) == [stack EXCEPT ![w] = [@ EXCEPT ![Len(@)] = f]]

\* abs(path): the written path of a directive as an absolute path.
abs(w, path) ==
    IF Head(path) = "/" THEN toAbsolutePath(<<"/">>, Tail(path))
    ELSE toAbsolutePath(Dir(paths[w][Len(paths[w])]), path)

\* Parse(path, ctx) up to its call of parsePath.
Parse(w, p) ==
    /\ pc[w] = "idle"
    /\ calls[w] < MaxParses
    /\ calls' = [calls EXCEPT ![w] = @ + 1]
    /\ LET a == IF p = <<>> THEN <<>>
                ELSE toAbsolutePath(<<"/">>, IF Head(p) = "/" THEN Tail(p) ELSE p)
       IN IF a = <<>>
          THEN /\ outcome' = [outcome EXCEPT ![w] =
                                [path |-> p, tree |-> Nil, err |-> ErrInvalidPath]]
               /\ UNCHANGED <<pc, arg, stack, paths, trees, waits, reads, fails>>
          ELSE /\ pc' = [pc EXCEPT ![w] = "parsePath"]
               /\ arg' = [arg EXCEPT ![w] = Key(a[1], ParseContext(impl))]
               /\ stack' = [stack EXCEPT ![w] = <<Frame(Key(a[1], ParseContext(impl)))>>]
               /\ paths' = [paths EXCEPT ![w] = <<>>]
               /\ outcome' = [outcome EXCEPT ![w] =
                                [path |-> a[1], tree |-> Nil, err |-> NoErr]]
               /\ IF impl = "template"
                  THEN /\ trees' = [trees EXCEPT ![w] = EmptyMap]
                       /\ waits' = [waits EXCEPT ![w] = {}]
                       /\ reads' = [reads EXCEPT ![w] = EmptyMap]
                       /\ fails' = [fails EXCEPT ![w] = EmptyMap]
                  ELSE UNCHANGED <<trees, waits, reads, fails>>
    /\ UNCHANGED <<builderVars, unitVars, impl, fs, got, held, prev, ret, badDone>>

OnlyTopOfStack(ps, path) == ps # <<>> /\ ps[Len(ps)] = path

\* for _, p := range pp.paths { if p == path {...} }
OnPathStack(ps, path) == path \in Range(ps)

\* parsePath: the check for a cycle.
CycleCheck(w) ==
    /\ pc[w] = "parsePath"
    /\ IF OnPathStack(paths[w], arg[w][1])
       THEN /\ ret' = [ret EXCEPT ![w] = [tree |-> Nil, err |-> CycleError(arg[w][1])]]
            /\ pc' = [pc EXCEPT ![w] = "return"]
       ELSE /\ pc' = [pc EXCEPT ![w] = "get"]
            /\ UNCHANGED ret
    /\ UNCHANGED <<builderVars, unitVars, impl, fs, trees, waits, arg, got, held, prev, stack, paths,
                   outcome, calls, reads, fails, badDone>>

IgnoresHit(r) == FALSE

\* if tree, ok := pp.trees.Get(path, ctx); ok { return tree, nil }
IsHit(r) == r.ok

\* parsePath: Get returns, with the cached tree or with the reservation.
Get(w) ==
    /\ pc[w] = "get"
    /\ GetOutcome(CacheOf(w), arg[w]) # "block"
    /\ got' = [got EXCEPT ![w] = GetResult(CacheOf(w), arg[w])]
    /\ waits' = WaitsAfterGet(CacheOf(w), arg[w])
    /\ held' = [held EXCEPT ![w] =
                  IF GetOutcome(CacheOf(w), arg[w]) = "miss" THEN @ \cup {arg[w]} ELSE @]
    /\ IF IsHit(got'[w])
       THEN /\ ret' = [ret EXCEPT ![w] = [tree |-> got'[w].tree, err |-> NoErr]]
            /\ pc' = [pc EXCEPT ![w] = "return"]
       ELSE /\ pc' = [pc EXCEPT ![w] = "read"]
            /\ UNCHANGED ret
    /\ UNCHANGED <<builderVars, unitVars, impl, fs, trees, arg, prev, stack, paths, outcome, calls,
                   reads, fails, badDone>>

ExitSkipsDoneOnError(err) == IF err.kind = "nil" THEN "done" ELSE "return"

\* defer pp.trees.Done(path, ctx): where a parsePath that reserved its key
\* goes when it returns err.
Exit(err) == "done"

\* The syntax error of a file, as parsePath gets it: ParseTemplateSource
\* errors get the path at once.
ReadError(im, path) ==
    IF im = "template" THEN SyntaxError(path, "syntax") ELSE SyntaxError(<<>>, "syntax")

\* parsePath: reads and parses the source, pushes the path.
Read(w) ==
    /\ pc[w] = "read"
    /\ LET k == Top(w).key
           c == CacheOf(w)
       IN /\ reads' = [reads EXCEPT ![c] = MapPut(@, k, MapGet(@, k, 0) + 1)]
          /\ IF k[1] \notin DOMAIN fs
             THEN /\ ret' = [ret EXCEPT ![w] = [tree |-> Nil, err |-> ErrNotExist]]
                  /\ pc' = [pc EXCEPT ![w] = Exit(ErrNotExist)]
                  /\ UNCHANGED <<stack, paths>>
             ELSE IF fs[k[1]].bad
             THEN /\ ret' = [ret EXCEPT ![w] =
                               [tree |-> Nil, err |-> ReadError(impl, k[1])]]
                  /\ pc' = [pc EXCEPT ![w] = Exit(ReadError(impl, k[1]))]
                  /\ UNCHANGED <<stack, paths>>
             ELSE /\ stack' = SetTop(w, [Top(w) EXCEPT
                                   !.order = expand(impl, fs[k[1]].nodes),
                                   !.links = [j \in 1..fs[k[1]].n |-> Nil]])
                  /\ paths' = [paths EXCEPT ![w] = Append(@, k[1])]
                  /\ pc' = [pc EXCEPT ![w] = "expand"]
                  /\ UNCHANGED ret
    /\ UNCHANGED <<builderVars, unitVars, impl, fs, trees, waits, arg, got, held, prev, outcome, calls,
                   fails, badDone>>

\* if e, ok := err.(*Error); ok && e.Path == "" { e.Path = path }
WithPath(err, path) ==
    IF err.kind = "Syntax" /\ err.path = <<>> THEN [err EXCEPT !.path = path] ELSE err

\* The path parsePath is called with for node n.
Target(im, a) == IF im = "program" THEN Append(a, ".go") ELSE a

ExtendsAtAnyDepth(ps) == FALSE

\* case *ast.Extends: if len(pp.paths) > 1 { return &Error{...} }
ExtendsBelowTop(ps) == Len(ps) > 1

\* expand: the next Extends, Import or Include node of the tree, or the end
\* of the nodes.
Expand(w) ==
    /\ pc[w] = "expand"
    /\ LET f == Top(w)
           n == f.order[f.i]
           a == abs(w, n.path)
       IN IF f.i > Len(f.order)
          THEN /\ paths' = [paths EXCEPT ![w] = Front(@)]
               /\ pc' = [pc EXCEPT ![w] = "add"]
               /\ UNCHANGED <<stack, arg, ret>>
          ELSE IF n.kind = "Extends" /\ ExtendsBelowTop(paths[w])
          THEN /\ ret' = [ret EXCEPT ![w] = [tree |-> Nil, err |->
                            WithPath(SyntaxError(<<>>, "can not have extends"), f.key[1])]]
               /\ pc' = [pc EXCEPT ![w] = Exit(ret'[w].err)]
               /\ UNCHANGED <<stack, arg, paths>>
          ELSE IF a = <<>>
          THEN /\ ret' = [ret EXCEPT ![w] = [tree |-> Nil, err |-> ErrInvalidPath]]
               /\ pc' = [pc EXCEPT ![w] = Exit(ErrInvalidPath)]
               /\ UNCHANGED <<stack, arg, paths>>
          ELSE IF impl = "program" /\ n.path \in packages
          THEN /\ stack' = SetTop(w, [f EXCEPT !.i = @ + 1])
               /\ UNCHANGED <<pc, arg, ret, paths>>
          ELSE /\ stack' = [stack EXCEPT ![w] =
                              Append(@, Frame(Key(Target(impl, a[1]), n.ctx)))]
               /\ arg' = [arg EXCEPT ![w] = Key(Target(impl, a[1]), n.ctx)]
               /\ pc' = [pc EXCEPT ![w] = "parsePath"]
               /\ UNCHANGED <<ret, paths>>
    /\ UNCHANGED <<builderVars, unitVars, impl, fs, trees, waits, got, held, prev, outcome, calls,
                   reads, fails, badDone>>

\* parsePath: adds the tree to the cache.
Add(w) ==
    /\ pc[w] = "add"
    /\ LET k == Top(w).key
           t == NewTree(k[1], k[2], w, Top(w).links)
       IN /\ trees' = TreesAfterAdd(CacheOf(w), k, t)
          /\ ret' = [ret EXCEPT ![w] = [tree |-> <<t>>, err |-> NoErr]]
          /\ pc' = Broadcast(w, Exit(NoErr), CacheOf(w), k)
    /\ UNCHANGED <<builderVars, unitVars, impl, fs, waits, arg, got, held, prev, stack, paths, outcome,
                   calls, reads, fails, badDone>>

\* parsePath: the deferred Done.
Done(w) ==
    /\ pc[w] = "done"
    /\ LET k == Top(w).key
           c == CacheOf(w)
       IN /\ waits' = WaitsAfterDone(c, k)
          /\ trees' = TreesAfterDone(c, k)
          /\ held' = [held EXCEPT ![w] = @ \ {k}]
          /\ badDone' = (badDone \/ k \notin held[w])
          /\ fails' = IF k \in DOMAIN trees[c] THEN fails
                      ELSE [fails EXCEPT ![c] = MapPut(@, k, MapGet(@, k, 0) + 1)]
          /\ prev' = IF k \in DOMAIN trees[c] THEN prev ELSE <<w, k>>
          /\ pc' = Broadcast(w, "return", c, k)
    /\ UNCHANGED <<builderVars, unitVars, impl, fs, arg, got, stack, paths, ret, outcome, calls, reads>>

\* expand: the error of parsePath(absPath, n.Context) as expand returns it.
ExpandError(im, n, err) ==
    IF err.kind = "InvalidPath" THEN Errorf("invalid path")
    ELSE IF err.kind = "NotExist"
         THEN SyntaxError(<<>>, IF im = "program" THEN "cannot find package"
                                ELSE "path does not exist")
    ELSE IF err.kind = "Cycle"
         THEN CycleError(<<IF n.kind = "Include" THEN "include " ELSE "imports ">>
                         \o err.text)
    ELSE err

\* Parse: the error of parsePath as Parse returns it.
ParseError(im, path, err) ==
    IF err.kind = "Syntax" /\ err.path = <<>> THEN [err EXCEPT !.path = path]
    ELSE IF err.kind = "Syntax" THEN err
    ELSE IF err.kind = "Cycle" THEN CycleError(path \o <<"\n\t">> \o err.text)
    ELSE IF im = "template" /\ err.kind = "NotExist" THEN ErrNotExist
    ELSE err

\* parsePath returns: to expand, which sets n.Tree or returns the error, or
\* to Parse, which returns to its caller.
Return(w) ==
    /\ pc[w] = "return"
    /\ IF Len(stack[w]) = 1
       THEN /\ stack' = [stack EXCEPT ![w] = <<>>]
            /\ pc' = [pc EXCEPT ![w] = "idle"]
            /\ outcome' = [outcome EXCEPT ![w] =
                 IF ret[w].err.kind # "nil"
                 THEN [@ EXCEPT !.err = ParseError(impl, Top(w).key[1], ret[w].err)]
                 ELSE IF impl = "program" /\ fs[Top(w).key[1]].nodes = <<>>
                 THEN [@ EXCEPT !.err = SyntaxError(<<>>, "expected 'package'")]
                 ELSE [@ EXCEPT !.tree = ret[w].tree]]
            /\ UNCHANGED <<ret>>
       ELSE LET f == stack[w][Len(stack[w]) - 1]
                n == f.order[f.i]
            IN IF ret[w].err.kind = "nil"
               THEN /\ stack' = [stack EXCEPT ![w] =
                          Append(SubSeq(@, 1, Len(@) - 2),
                                 [f EXCEPT !.links[n.id] = ret[w].tree, !.i = @ + 1])]
                    /\ pc' = [pc EXCEPT ![w] = "expand"]
                    /\ UNCHANGED <<ret, outcome>>
               ELSE /\ stack' = [stack EXCEPT ![w] = Front(@)]
                    /\ ret' = [ret EXCEPT ![w] = [tree |-> Nil, err |->
                          WithPath(ExpandError(impl, n, ret[w].err), f.key[1])]]
                    /\ pc' = [pc EXCEPT ![w] = Exit(ret'[w].err)]
                    /\ UNCHANGED outcome
    /\ UNCHANGED <<builderVars, unitVars, impl, fs, trees, waits, arg, got, held, prev, paths, calls,
                   reads, fails, badDone>>

Next ==
    \/ \E w \in Workers, p \in ParseArgs(impl) : Parse(w, p)
    \/ \E w \in Workers : CycleCheck(w)
    \/ \E w \in Workers : GetBlock(w)
    \/ \E w \in Workers : Get(w)
    \/ \E w \in Workers : Read(w)
    \/ \E w \in Workers : Expand(w)
    \/ \E w \in Workers : Add(w)
    \/ \E w \in Workers : Done(w)
    \/ \E w \in Workers : Return(w)

Spec == Init /\ [][Next]_vars

(***************************************************************************)
(* Claims about the cache (SpecCache, FairSpecCache).                      *)
(***************************************************************************)

\* The workers that hold the reservation of key k.
HoldersOf(k) == {w \in DOMAIN pc : k \in held[w]}

\* Worker w's Get returns in this step.
GetReturns(w) == pc[w] = "get" /\ pc'[w] \notin {"get", "wait"}

\* C1: at most one worker at a time holds the reservation of a key: while a
\* worker holds it and no tree was added, a Get of another worker for the
\* same key blocks instead of returning (nil, false), and a Get blocks only
\* on a reservation of its own key, never on one of another path or context.
C1_MutualExclusion ==
    /\ [](\A k \in TestKeys : Cardinality(HoldersOf(k)) <= 1)
    /\ [][\A w \in CacheWorkers :
            /\ (pc[w] = "get" /\ pc'[w] = "wait")
                 => \E v \in CacheWorkers \ {w} : arg[w] \in held[v]
            /\ (GetReturns(w) /\ ~got'[w].ok)
                 => \A v \in CacheWorkers \ {w} : arg[w] \notin held[v]]_vars

\* A worker waits on a reserved key while a third worker holds the same path
\* in another context.
C1_Witness ==
    \E w, v, u \in CacheWorkers :
        /\ pc[v] = "wait" /\ arg[v] \in held[w]
        /\ \E k \in held[u] : k[1] = arg[v][1] /\ k[2] # arg[v][2]

\* C4: once a tree was added for a key, every Get for the key that returns
\* afterwards returns (tree, true) with that very tree, before and after the
\* holder's Done, and no step removes or replaces a stored tree.
C4_AddedTreeIsReturned ==
    [][/\ \A k \in DOMAIN trees["shared"] :
            k \in DOMAIN trees'["shared"] /\ trees'["shared"][k] = trees["shared"][k]
       /\ \A w \in CacheWorkers :
            (GetReturns(w) /\ arg[w] \in DOMAIN trees["shared"])
              => got'[w] = [tree |-> <<trees["shared"][arg[w]]>>, ok |-> TRUE]]_vars

\* A Get returned the added tree while the worker that added it still holds
\* the reservation, and another returned it after the holder's Done.
C4_Witness ==
    \E w, v, u \in CacheWorkers :
        /\ w # v /\ pc[v] = "idle" /\ got[v].ok /\ arg[v] \in held[w]
        /\ got[v].tree = <<trees["shared"][arg[v]]>> /\ got[v].tree[1].by = w
        /\ u # v /\ pc[u] = "idle" /\ got[u].ok /\ HoldersOf(arg[u]) = {}

\* C5: a Done without Add clears the slot, so a reservation exists only
\* while a worker holds it; the next Get to return for a key without tree
\* returns (nil, false) and makes its caller the holder.
C5_DoneWithoutAddClearsSlot ==
    /\ [](\A k \in waits["shared"] : HoldersOf(k) # {})
    /\ [][\A w \in CacheWorkers :
            /\ (pc[w] = "hold" /\ pc'[w] = "idle") => arg[w] \notin waits'["shared"]
            /\ (GetReturns(w) /\ arg[w] \notin DOMAIN trees["shared"])
                 => /\ got'[w] = [tree |-> Nil, ok |-> FALSE]
                    /\ arg[w] \in held'[w]
                    /\ arg[w] \in waits'["shared"]]_vars

\* TestCache at "a: get...": a called Done without Add, b's Get returned
\* (nil, false) and b holds the key, a's further Get waits on it.
C5_Witness ==
    /\ prev = <<"a", Key(<<"index.html">>, "HTML")>>
    /\ pc["a"] = "wait" /\ arg["a"] = prev[2]
    /\ prev[2] \in held["b"] /\ got["b"] = [tree |-> Nil, ok |-> FALSE]

ReadCount(c, k) == MapGet(reads[c], k, 0)

FailCount(c, k) == MapGet(fails[c], k, 0)

WaitsFor(w, h) ==
    /\ pc[w] = "wait"
    /\ w # h
    /\ CacheOf(w) = CacheOf(h)
    /\ arg[w] \in held[h]

\* C3 (as stated): no set of workers ends up blocked forever in the cache's
\* Get, each of them waiting for a key that a worker of the set holds.
C3_NoWorkersBlockedForever ==
    ~ \E S \in SUBSET Workers :
        /\ S # {}
        /\ \A w \in S : \E h \in S : WaitsFor(w, h)

LowerKeys(w) == {stack[w][j].key : j \in 1..(Len(stack[w]) - 1)}

\* C7: the keys a worker has got with (nil, false) and not yet released with
\* Done are exactly the keys of its parsePath calls that are between their
\* Get and their deferred Done: a call that has returned, on any exit, has
\* released its key; a call that got a cached tree or failed the cycle
\* check holds nothing; and Done is only ever called for a key the worker
\* holds.
C7_DoneOncePerMiss ==
    /\ ~ badDone
    /\ \A w \in Workers :
          held[w] = LowerKeys(w) \cup
                    (IF pc[w] \in {"read", "expand", "add", "done"}
                     THEN {Top(w).key} ELSE {})

\* A parsePath called from expand has read its file, failed, and run its
\* Done.
C7_Witness ==
    \E w \in Workers :
        /\ pc[w] = "return"
        /\ Len(stack[w]) = 2
        /\ ret[w].err.kind = "Syntax"
        /\ prev = <<w, Top(w).key>>
        /\ Top(w).key \notin held[w]
        /\ held[w] = {stack[w][1].key}

\* C8: parsePath fails with Cycle(absPath) exactly when absPath is on the
\* path stack of its expansion, and then without a Get on the cache and
\* without a Read; when absPath is not on the stack it goes on to Get, and
\* no later step of the call makes a Cycle error of its own.
C8_CycleExactlyWhenOnStack ==
    [][\A w \in Workers :
         /\ (pc[w] = "parsePath" /\ pc'[w] # "parsePath") =>
               IF arg[w][1] \in Range(paths[w])
               THEN /\ pc'[w] = "return"
                    /\ ret'[w] = [tree |-> Nil, err |-> CycleError(arg[w][1])]
                    /\ got'[w] = got[w] /\ held'[w] = held[w]
                    /\ waits' = waits /\ reads' = reads
               ELSE /\ pc'[w] = "get"
                    /\ ret'[w] = ret[w]
         /\ (pc[w] \in {"get", "wait", "read", "expand", "add", "done"}
             /\ ret'[w] # ret[w]) => ret'[w].err.kind # "Cycle"]_vars

\* parsePath has failed with Cycle for a path below the root of the
\* expansion: /c includes /b, /b includes /a, /a includes /b.
C8_Witness ==
    \E w \in Workers :
        /\ pc[w] = "return"
        /\ Len(stack[w]) = 4
        /\ ret[w].err = CycleError(arg[w][1])
        /\ Len(paths[w]) = 3
        /\ arg[w][1] = paths[w][2]

EndsWith(text, part) ==
    /\ Len(text) >= Len(part)
    /\ SubSeq(text, Len(text) - Len(part) + 1, Len(text)) = part

\* C9 (as stated): when Parse(p1) fails because of a cycle
\* p1 -> p2 -> ... -> pn -> p1, the text of the Cycle error contains every
\* path of the cycle.
C9_CycleTextHasEveryPath ==
    \A w \in Workers :
        (/\ pc[w] = "idle"
         /\ outcome[w].err.kind = "Cycle"
         /\ EndsWith(outcome[w].err.text, outcome[w].path))
        => \A j \in 1..Len(paths[w]) : Contains(outcome[w].err.text, paths[w][j])

RECURSIVE Directives(_), DirectivesOfCases(_)
\* The Extends, Import and Include nodes of a tree, at any depth.
Directives(nodes) ==
    IF nodes = <<>> THEN {}
    ELSE LET n == Head(nodes)
         IN (IF n.kind \in {"Extends", "Import", "Include"} THEN {n} ELSE {})
            \cup Directives(n.body) \cup DirectivesOfCases(n.cases)
            \cup Directives(n.els) \cup Directives(Tail(nodes))

DirectivesOfCases(cases) ==
    IF cases = <<>> THEN {}
    ELSE Directives(Head(cases)) \cup DirectivesOfCases(Tail(cases))

RECURSIVE AllLinked(_)
AllLinked(t) ==
    \A n \in Directives(fs[t.path].nodes) :
        /\ t.links[n.id] # Nil
        /\ AllLinked(t.links[n.id][1])

\* C10 (as stated): every Extends, Import and Include node of a tree that
\* Parse returns, and of the trees attached to such nodes, has a Tree.
C10_EveryDirectiveHasTree ==
    \A w \in Workers : outcome[w].tree # Nil => AllLinked(outcome[w].tree[1])

RECURSIVE AllLinkedButNative(_)
AllLinkedButNative(t) ==
    \A n \in Directives(fs[t.path].nodes) :
        \/ impl = "program" /\ n.kind = "Import" /\ n.path \in packages
        \/ /\ t.links[n.id] # Nil
           /\ AllLinkedButNative(t.links[n.id][1])

\* C10 (amended): every Extends, Import and Include node of a tree that
\* Parse returns, and of the trees attached to such nodes, has a Tree,
\* except the Import nodes of a program that name a predefined package.
C10_EveryDirectiveButNativeHasTree ==
    \A w \in Workers :
        outcome[w].tree # Nil => AllLinkedButNative(outcome[w].tree[1])

\* Parse has returned the tree of /a, with an Extends at top level, an
\* Include in a macro and an Import in a for-range body, over the tree of
\* /b with directives in else branches, switch cases and a type switch.
C10_Witness ==
    \E w \in Workers :
        /\ fs = FsNested
        /\ pc[w] = "idle"
        /\ outcome[w].path = PathA
        /\ outcome[w].tree # Nil
        /\ outcome[w].tree[1].links[1][1].links[4] # Nil

\* C11: when expand reaches an Extends node while the path stack is deeper
\* than 1, the parsePath call of the file fails with a syntax error and
\* there is no parsePath, so no Get and no Read, for the extended path;
\* an Extends node is only ever expanded, and only ever gets a Tree, at
\* depth 1.
C11_ExtendsOnlyAtTopLevel ==
    [][\A w \in Workers :
         (/\ pc[w] = "expand"
          /\ pc'[w] # "expand"
          /\ Top(w).i <= Len(Top(w).order)
          /\ Top(w).order[Top(w).i].kind = "Extends")
         => IF Len(paths[w]) > 1
            THEN /\ pc'[w] = "done"
                 /\ ret'[w].err.kind = "Syntax"
                 /\ ret'[w].tree = Nil
                 /\ stack'[w] = stack[w]
                 /\ reads' = reads /\ waits' = waits /\ trees' = trees
                 /\ got'[w] = got[w]
            ELSE /\ pc'[w] = "parsePath"
                 /\ Len(stack'[w]) = 2]_vars

\* /a includes /b and /b starts with an Extends: the parsePath of /b has
\* failed with the syntax error, without a frame, a Get or a Read for /c.
C11_Witness ==
    \E w \in Workers :
        /\ fs = FsExtends
        /\ pc[w] = "done"
        /\ Len(stack[w]) = 2
        /\ Len(paths[w]) = 2
        /\ Top(w).key[1] = PathB
        /\ ret[w].err = SyntaxError(PathB, "can not have extends")
        /\ ReadCount("shared", Key(PathC, "HTML")) = 0

(***************************************************************************)
(* The function builder: registers, scopes, tables, labels.                *)
(***************************************************************************)

\* Builder calls in a run.
MaxCalls == 5

\* int8(v) and uint8(v) of an integer v.
Int8(v) == ((v + 128) % 256) - 128

Uint8(v) == v % 256

Abs(v) == IF v < 0 THEN -v ELSE v

IntKinds == {"Int", "Int8", "Int16", "Int32", "Int64",
             "Uint", "Uint8", "Uint16", "Uint32", "Uint64"}

FloatKinds == {"Float32", "Float64"}

\* kindToType(kind)
kindToType(kind) ==
    CASE kind \in IntKinds -> "TypeInt"
      [] kind \in FloatKinds -> "TypeFloat"
      [] kind = "String" -> "TypeString"
      [] OTHER -> "TypeIface"

\* The kind NewRegister and allocRegister count the registers of kind under.
RegisterKind(kind) ==
    CASE kindToType(kind) = "TypeInt" -> "Int"
      [] kindToType(kind) = "TypeFloat" -> "Float64"
      [] kindToType(kind) = "TypeString" -> "String"
      [] OTHER -> "Interface"

RegisterKinds == {"Int", "Float64", "String", "Interface"}

\* The field of fn.RegNum that End commits a kind of maxRegs to.
RegNumOf(kind) ==
    CASE kind \in IntKinds -> "Int"
      [] kind \in FloatKinds -> "Float"
      [] kind = "String" -> "String"
      [] OTHER -> "General"

\* if num, ok := m[kind]; !ok || uint8(reg) > num { m[kind] = uint8(reg) }
RaiseTo(m, kd, reg) ==
    IF kd \notin DOMAIN m \/ Uint8(reg) > m[kd] THEN MapPut(m, kd, Uint8(reg)) ELSE m

RaisesMaximumOnly(b, kind, reg) ==
    IF reg > 0 THEN [b EXCEPT !.maxRegs = RaiseTo(@, RegisterKind(kind), reg)] ELSE b

\* allocRegister(kind, reg) on builder b.
allocRegister(b, kind, reg) ==
    IF reg > 0
    THEN [b EXCEPT !.maxRegs = RaiseTo(@, RegisterKind(kind), reg),
                   !.numRegs = RaiseTo(@, RegisterKind(kind), reg)]
    ELSE b

\* numRegs[kind], 0 for a missing key.
NumRegs(b, kind) == MapGet(b.numRegs, kind, 0)

MaxRegs(b, kind) == MapGet(b.maxRegs, kind, 0)

\* The builder after EnterStack.
AfterEnterStack(b) ==
    [b EXCEPT !.scopeShifts = Append(@,
        <<Int8(NumRegs(b, "Int")), Int8(NumRegs(b, "Float64")),
          Int8(NumRegs(b, "String")), Int8(NumRegs(b, "Interface"))>>)]

ExitKeepsCounts(b) == [b EXCEPT !.scopeShifts = Front(@)]

\* The builder after ExitStack.
AfterExitStack(b) ==
    LET shift == b.scopeShifts[Len(b.scopeShifts)]
    IN [b EXCEPT !.numRegs =
            MapPut(MapPut(MapPut(MapPut(@, "Int", Uint8(shift[1])),
                                 "Float64", Uint8(shift[2])),
                          "String", Uint8(shift[3])),
                   "Interface", Uint8(shift[4])),
                 !.scopeShifts = Front(@)]

\* The result of a call that returned val, and of a call that panicked.
Returned(call, args, val) ==
    [call |-> call, args |-> args, val |-> val, fatal |-> FALSE, n |-> result.n + 1]

Panicked(call, args) ==
    [call |-> call, args |-> args, val |-> 0, fatal |-> TRUE, n |-> result.n + 1]

NoArgs == [none |-> TRUE]

\* A builder call can be made: no panic so far, End not called.
CanCall ==
    /\ ~ result.fatal
    /\ result.call # "End"
    /\ result.n < MaxCalls

parserVars == <<impl, fs, trees, waits, pc, arg, got, held, prev, stack, paths,
                ret, outcome, calls, reads, fails, badDone>>

\* The counts an EnterScope or EnterStack call finds.
Counts(b) == [kd \in RegisterKinds |-> NumRegs(b, kd)]

EnterScope ==
    /\ CanCall
    /\ builder' = AfterEnterStack([builder EXCEPT !.scopes = Append(@, EmptyMap)])
    /\ entered' = Append(entered, [call |-> "EnterScope", counts |-> Counts(builder)])
    /\ result' = Returned("EnterScope", NoArgs, 0)
    /\ UNCHANGED <<parserVars, unitVars, fn, uses, bound>>

\* Every ExitScope call must be paired with a corresponding EnterScope call.
ExitScope ==
    /\ CanCall
    /\ entered # <<>>
    /\ entered[Len(entered)].call = "EnterScope"
    /\ builder' = AfterExitStack([builder EXCEPT !.scopes = Front(@)])
    /\ entered' = Front(entered)
    /\ result' = Returned("ExitScope", [counts |-> entered[Len(entered)].counts], 0)
    /\ UNCHANGED <<parserVars, unitVars, fn, uses, bound>>

EnterStack ==
    /\ CanCall
    /\ builder' = AfterEnterStack(builder)
    /\ entered' = Append(entered, [call |-> "EnterStack", counts |-> Counts(builder)])
    /\ result' = Returned("EnterStack", NoArgs, 0)
    /\ UNCHANGED <<parserVars, unitVars, fn, uses, bound>>

\* Every ExitStack call must be paired with a corresponding EnterStack call.
ExitStack ==
    /\ CanCall
    /\ entered # <<>>
    /\ entered[Len(entered)].call = "EnterStack"
    /\ builder' = AfterExitStack(builder)
    /\ entered' = Front(entered)
    /\ result' = Returned("ExitStack", [counts |-> entered[Len(entered)].counts], 0)
    /\ UNCHANGED <<parserVars, unitVars, fn, uses, bound>>

\* reg := int8(builder.numRegs[kind]) + 1
NextRegister(b, kind) == Int8(Int8(NumRegs(b, RegisterKind(kind))) + 1)

NewRegister(kind) ==
    /\ CanCall
    /\ builder' = allocRegister(builder, RegisterKind(kind), NextRegister(builder, kind))
    /\ result' = Returned("NewRegister", [kind |-> kind], NextRegister(builder, kind))
    /\ UNCHANGED <<parserVars, unitVars, fn, uses, entered, bound>>

\* The outcome of a call on function f: the function after it, the value
\* it returns, whether it panics.
Outcome(f, val, fatal) == [fn |-> f, val |-> val, fatal |-> fatal]

\* The index of typ in types, counted from 0 (the last one, as the loops of
\* Type and Assert leave it), or -1.
IndexOfType(types, typ) ==
    IF \E j \in DOMAIN types : types[j] = typ
    THEN (CHOOSE j \in DOMAIN types :
              types[j] = typ /\ \A i \in (j + 1)..Len(types) : types[i] # typ) - 1
    ELSE -1

\* The index of the first typ in types, counted from 0 (the loop of AddType
\* returns at the first one), or -1.
FirstIndexOfType(types, typ) ==
    IF \E j \in DOMAIN types : types[j] = typ
    THEN (CHOOSE j \in DOMAIN types :
              types[j] = typ /\ \A i \in 1..(j - 1) : types[i] # typ) - 1
    ELSE -1

\* AddType(typ) on function f.
addType(f, typ) ==
    IF Len(f.Types) > 255 THEN Outcome(f, 0, TRUE)
    ELSE IF FirstIndexOfType(f.Types, typ) >= 0
         THEN Outcome(f, Uint8(FirstIndexOfType(f.Types, typ)), FALSE)
    ELSE Outcome([f EXCEPT !.Types = Append(@, typ)], Uint8(Len(f.Types)), FALSE)

\* Type(typ) on function f.
typeIndex(f, typ) ==
    IF IndexOfType(f.Types, typ) >= 0
    THEN Outcome(f, Int8(IndexOfType(f.Types, typ)), FALSE)
    ELSE IF Len(f.Types) = 256 THEN Outcome(f, 0, TRUE)
    ELSE Outcome([f EXCEPT !.Types = Append(@, typ)], Int8(Len(f.Types)), FALSE)

\* A call that changes only the function.
FunctionCall(call, args, o) ==
    /\ CanCall
    /\ fn' = o.fn
    /\ result' = IF o.fatal THEN Panicked(call, args) ELSE Returned(call, args, o.val)
    /\ UNCHANGED <<parserVars, unitVars, builder, uses, entered, bound>>

AddType(typ) == FunctionCall("AddType", [typ |-> typ], addType(fn, typ))

Type(typ) == FunctionCall("Type", [typ |-> typ], typeIndex(fn, typ))

\* r := len(table); if r > 255 { panic }; table = append(table, v); uint8(r)
addEntry(f, table, v) ==
    IF Len(f[table]) > 255 THEN Outcome(f, 0, TRUE)
    ELSE Outcome([f EXCEPT ![table] = Append(@, v)], Uint8(Len(f[table])), FALSE)

AddVariable(v) == FunctionCall("AddVariable", [v |-> v], addEntry(fn, "Variables", v))

AddNativeFunction(v) ==
    FunctionCall("AddNativeFunction", [v |-> v], addEntry(fn, "NativeFunctions", v))

AddScrigoFunction(v) ==
    FunctionCall("AddScrigoFunction", [v |-> v], addEntry(fn, "ScrigoFunctions", v))

\* if r > 255 { panic("... refs limit reached") }
PoolFull(n) == n > 255

\* r := len(pool); if r > 255 { panic }; pool = append(pool, c); int8(r)
makeConstant(f, pool, c) ==
    IF PoolFull(Len(f.Constants[pool])) THEN Outcome(f, 0, TRUE)
    ELSE Outcome([f EXCEPT !.Constants[pool] = Append(@, c)],
                 Int8(Len(f.Constants[pool])), FALSE)

MakeStringConstant(c) ==
    FunctionCall("MakeStringConstant", [c |-> c], makeConstant(fn, "String", c))

MakeGeneralConstant(c) ==
    FunctionCall("MakeGeneralConstant", [c |-> c], makeConstant(fn, "General", c))

MakeFloatConstant(c) ==
    FunctionCall("MakeFloatConstant", [c |-> c], makeConstant(fn, "Float", c))

MakeIntConstant(c) ==
    FunctionCall("MakeIntConstant", [c |-> c], makeConstant(fn, "Int", c))

\* r := -len(General) - 1; if r == -129 { panic }; append; int8(r)
makeInterfaceConstant(f, c) ==
    IF - Len(f.Constants.General) - 1 = -129 THEN Outcome(f, 0, TRUE)
    ELSE Outcome([f EXCEPT !.Constants.General = Append(@, c)],
                 Int8(- Len(f.Constants.General) - 1), FALSE)

MakeInterfaceConstant(c) ==
    FunctionCall("MakeInterfaceConstant", [c |-> c], makeInterfaceConstant(fn, c))

\* CurrentAddr()
CurrentAddr(f) == f.Body.len

NewLabel ==
    /\ CanCall
    /\ builder' = [builder EXCEPT !.labels = Append(@, 0)]
    /\ bound' = Append(bound, <<>>)
    /\ result' = Returned("NewLabel", NoArgs, Len(builder.labels) + 1)
    /\ UNCHANGED <<parserVars, unitVars, fn, uses, entered>>

SetLabelAddr(label) ==
    /\ CanCall
    /\ label \in 1..Len(builder.labels)
    /\ builder' = [builder EXCEPT !.labels[label] = CurrentAddr(fn)]
    /\ bound' = [bound EXCEPT ![label] = Append(@, CurrentAddr(fn))]
    /\ result' = Returned("SetLabelAddr", [label |-> label], 0)
    /\ UNCHANGED <<parserVars, unitVars, fn, uses, entered>>

(***************************************************************************)
(* The function builder: instructions.                                     *)
(***************************************************************************)

\* The operations the builder emits; an operation is the pair of its family
\* and its variant, its number is its place in the enumeration.
Operations ==
    << <<"OpAdd", "Int">>, <<"OpAdd", "Int8">>, <<"OpAdd", "Int16">>,
       <<"OpAdd", "Int32">>, <<"OpAdd", "Float32">>, <<"OpAdd", "Float64">>,
       <<"OpAnd", "">>, <<"OpAndNot", "">>, <<"OpAssert", "">>,
       <<"OpAssert", "Int">>, <<"OpAssert", "Float64">>, <<"OpAssert", "String">>,
       <<"OpCall", "">>, <<"OpCallIndirect", "">>, <<"OpCallNative", "">>,
       <<"OpDefer", "">>,
       <<"OpCase", "">>, <<"OpConvert", "">>, <<"OpConvert", "Int">>,
       <<"OpConvert", "Uint">>, <<"OpConvert", "Float">>, <<"OpConvert", "String">>,
       <<"OpDiv", "Int">>, <<"OpDiv", "Int8">>, <<"OpDiv", "Int16">>,
       <<"OpDiv", "Int32">>, <<"OpDiv", "Uint8">>, <<"OpDiv", "Uint16">>,
       <<"OpDiv", "Uint32">>, <<"OpDiv", "Uint64">>, <<"OpDiv", "Float32">>,
       <<"OpDiv", "Float64">>, <<"OpFunc", "">>, <<"OpGoto", "">>,
       <<"OpIf", "Int">>, <<"OpIf", "Float">>, <<"OpIf", "String">>,
       <<"OpIndex", "">>, <<"OpLeftShift", "">>, <<"OpLeftShift", "8">>,
       <<"OpLeftShift", "16">>, <<"OpLeftShift", "32">>, <<"OpMakeChan", "">>,
       <<"OpMakeMap", "">>, <<"OpMakeSlice", "">>, <<"OpMapIndex", "">>,
       <<"OpMove", "">>, <<"OpMul", "Int">>, <<"OpMul", "Int8">>,
       <<"OpMul", "Int16">>, <<"OpMul", "Int32">>, <<"OpMul", "Float32">>,
       <<"OpMul", "Float64">>, <<"OpNew", "">>, <<"OpOr", "">>,
       <<"OpRem", "Int">>, <<"OpRem", "Int8">>, <<"OpRem", "Int16">>,
       <<"OpRem", "Int32">>, <<"OpRem", "Uint8">>, <<"OpRem", "Uint16">>,
       <<"OpRem", "Uint32">>, <<"OpRem", "Uint64">>, <<"OpRightShift", "">>,
       <<"OpRightShift", "U">>, <<"OpSetMap", "">>, <<"OpSetSlice", "">>,
       <<"OpSliceIndex", "">>, <<"OpStringIndex", "">>, <<"OpSub", "Int">>,
       <<"OpSub", "Int8">>, <<"OpSub", "Int16">>, <<"OpSub", "Int32">>,
       <<"OpSub", "Float32">>, <<"OpSub", "Float64">>, <<"OpSubInv", "Int">>,
       <<"OpSubInv", "Int8">>, <<"OpSubInv", "Int16">>, <<"OpSubInv", "Int32">>,
       <<"OpSubInv", "Float32">>, <<"OpSubInv", "Float64">>, <<"OpXor", "">> >>

\* The number of an operation; OpNone, and "var op Operation" left unset, is 0.
Op(family, variant) ==
    IF \E j \in DOMAIN Operations : Operations[j] = <<family, variant>>
    THEN CHOOSE j \in DOMAIN Operations : Operations[j] = <<family, variant>>
    ELSE 0

\* Instruction{Op: op, A: a, B: b, C: c}
Instruction(op, a, b, c) == [Op |-> op, A |-> a, B |-> b, C |-> c]

\* fn.Body[addr]
InstructionAt(f, addr) == MapGet(f.Body.ins, addr, Instruction(0, 0, 0, 0))

\* fn.Body = append(fn.Body, in...)
RECURSIVE appendBody(_, _)
appendBody(f, instrs) ==
    IF instrs = <<>> THEN f
    ELSE appendBody([f EXCEPT !.Body = [len |-> @.len + 1,
                                        ins |-> MapPut(@.ins, @.len, Head(instrs))]],
                    Tail(instrs))

NeverNegated(k, op) == op

\* if k { op = -op }
Negated(k, op) == IF k THEN Int8(-op) ELSE op

\* The operands of an instruction that are registers, with the field of
\* fn.RegNum that counts them.
Reg(kind, reg) == <<RegNumOf(kind), reg>>

\* A call that emits instructions: b is the builder after its allocRegister
\* calls, o the function after its changes of the tables, invalid says that
\* it panics before it appends, regs are the register operands of the first
\* instruction and label the label it jumps to.
Emit(call, args, b, o, invalid, instrs, regs, label) ==
    /\ CanCall
    /\ builder' = b
    /\ IF o.fatal \/ invalid
       THEN /\ fn' = o.fn
            /\ uses' = uses
            /\ result' = Panicked(call, args)
       ELSE /\ fn' = appendBody(o.fn, instrs)
            /\ uses' = MapPut(uses, CurrentAddr(fn), [regs |-> regs, label |-> label])
            /\ result' = Returned(call, args, o.val)
    /\ UNCHANGED <<parserVars, unitVars, entered, bound>>

Unchanged(f) == Outcome(f, 0, FALSE)

\* The variant of Add, Mul, Sub and SubInv for a kind, "?" for the default
\* case.
ArithVariant(kind) ==
    CASE kind \in {"Int", "Int64", "Uint", "Uint64"} -> "Int"
      [] kind \in {"Int32", "Uint32"} -> "Int32"
      [] kind \in {"Int16", "Uint16"} -> "Int16"
      [] kind \in {"Int8", "Uint8"} -> "Int8"
      [] kind = "Float64" -> "Float64"
      [] kind = "Float32" -> "Float32"
      [] OTHER -> "?"

\* The variant of Div for a kind; Rem has no variant for the float kinds.
DivVariant(kind) ==
    CASE kind \in {"Int", "Int64"} -> "Int"
      [] kind = "Int32" -> "Int32"
      [] kind = "Int16" -> "Int16"
      [] kind = "Int8" -> "Int8"
      [] kind \in {"Uint", "Uint64"} -> "Uint64"
      [] kind = "Uint32" -> "Uint32"
      [] kind = "Uint16" -> "Uint16"
      [] kind = "Uint8" -> "Uint8"
      [] kind = "Float64" -> "Float64"
      [] kind = "Float32" -> "Float32"
      [] OTHER -> "?"

RemVariant(kind) == IF kind \in FloatKinds THEN "?" ELSE DivVariant(kind)

\* The register operands of z = x op y.
BinaryRegs(k, x, y, z, kind) ==
    {Reg(kind, x), Reg(kind, z)} \cup (IF k THEN {} ELSE {Reg(kind, y)})

\* allocRegister(kind, x); if !k { allocRegister(kind, y) }; allocRegister(kind, z)
AllocUnlessConstant(b, k, x, y, z, kind) ==
    allocRegister(IF k THEN allocRegister(b, kind, x)
                  ELSE allocRegister(allocRegister(b, kind, x), kind, y), kind, z)

\* allocRegister(kind, x); allocRegister(kind, y); allocRegister(kind, z)
AllocAll(b, x, y, z, kind) ==
    allocRegister(allocRegister(allocRegister(b, kind, x), kind, y), kind, z)

ArithArgs(k, x, y, z, kind) == [k |-> k, x |-> x, y |-> y, z |-> z, kind |-> kind]

InstrAdd(k, x, y, z, kind) ==
    Instruction(Negated(k, Op("OpAdd", ArithVariant(kind))), x, y, z)

BuilderAdd(k, x, y, z, kind) ==
    Emit("Add", ArithArgs(k, x, y, z, kind),
         AllocUnlessConstant(builder, k, x, y, z, kind), Unchanged(fn),
         ArithVariant(kind) = "?", <<InstrAdd(k, x, y, z, kind)>>,
         BinaryRegs(k, x, y, z, kind), 0)

InstrSub(k, x, y, z, kind) ==
    Instruction(Negated(k, Op("OpSub", ArithVariant(kind))), x, y, z)

Sub(k, x, y, z, kind) ==
    Emit("Sub", ArithArgs(k, x, y, z, kind),
         AllocUnlessConstant(builder, k, x, y, z, "Int"), Unchanged(fn),
         ArithVariant(kind) = "?", <<InstrSub(k, x, y, z, kind)>>,
         BinaryRegs(k, x, y, z, kind), 0)

InstrSubInv(k, x, y, z, kind) ==
    Instruction(Negated(k, Op("OpSubInv", ArithVariant(kind))), x, y, z)

SubInv(k, x, y, z, kind) ==
    Emit("SubInv", ArithArgs(k, x, y, z, kind),
         AllocUnlessConstant(builder, k, x, y, z, "Int"), Unchanged(fn),
         ArithVariant(kind) = "?", <<InstrSubInv(k, x, y, z, kind)>>,
         BinaryRegs(k, x, y, z, kind), 0)

InstrMul(k, x, y, z, kind) ==
    Instruction(Negated(k, Op("OpMul", ArithVariant(kind))), x, y, z)

Mul(k, x, y, z, kind) ==
    Emit("Mul", ArithArgs(k, x, y, z, kind), AllocAll(builder, x, y, z, kind),
         Unchanged(fn), ArithVariant(kind) = "?", <<InstrMul(k, x, y, z, kind)>>,
         BinaryRegs(k, x, y, z, kind), 0)

InstrDiv(k, x, y, z, kind) ==
    Instruction(Negated(k, Op("OpDiv", DivVariant(kind))), x, y, z)

Div(k, x, y, z, kind) ==
    Emit("Div", ArithArgs(k, x, y, z, kind), AllocAll(builder, x, y, z, kind),
         Unchanged(fn), DivVariant(kind) = "?", <<InstrDiv(k, x, y, z, kind)>>,
         BinaryRegs(k, x, y, z, kind), 0)

InstrRem(k, x, y, z, kind) ==
    Instruction(Negated(k, Op("OpRem", RemVariant(kind))), x, y, z)

Rem(k, x, y, z, kind) ==
    Emit("Rem", ArithArgs(k, x, y, z, kind), AllocAll(builder, x, y, z, kind),
         Unchanged(fn), RemVariant(kind) = "?", <<InstrRem(k, x, y, z, kind)>>,
         BinaryRegs(k, x, y, z, kind), 0)

\* x o y, with the kind of x and y.
InstrIf(k, x, o, y, kind) ==
    Instruction(Negated(k, Op("OpIf", CASE kindToType(kind) = "TypeInt" -> "Int"
                                        [] kindToType(kind) = "TypeFloat" -> "Float"
                                        [] kindToType(kind) = "TypeString" -> "String"
                                        [] OTHER -> "?")), x, o, y)

BuilderIf(k, x, o, y, kind) ==
    Emit("If", [k |-> k, x |-> x, o |-> o, y |-> y, kind |-> kind],
         IF k THEN allocRegister(builder, kind, x)
         ELSE allocRegister(allocRegister(builder, kind, x), kind, y),
         Unchanged(fn), kindToType(kind) = "TypeIface",
         <<InstrIf(k, x, o, y, kind)>>,
         {Reg(kind, x)} \cup (IF k THEN {} ELSE {Reg(kind, y)}), 0)

\* The move types, numbered from 0.
MoveTypes == <<"IntInt", "FloatFloat", "StringString", "IntGeneral",
               "FloatGeneral", "StringGeneral", "GeneralGeneral">>

MoveType(srcKind, dstKind) ==
    LET name == CASE kindToType(dstKind) = "TypeInt" -> "IntInt"
                  [] kindToType(dstKind) = "TypeFloat" -> "FloatFloat"
                  [] kindToType(dstKind) = "TypeString" -> "StringString"
                  [] kindToType(srcKind) = "TypeInt" -> "IntGeneral"
                  [] kindToType(srcKind) = "TypeFloat" -> "FloatGeneral"
                  [] kindToType(srcKind) = "TypeString" -> "StringGeneral"
                  [] OTHER -> "GeneralGeneral"
    IN (CHOOSE j \in DOMAIN MoveTypes : MoveTypes[j] = name) - 1

\* z = x
InstrMove(k, x, z, srcKind, dstKind) ==
    Instruction(Negated(k, Op("OpMove", "")), MoveType(srcKind, dstKind), x, z)

Move(k, x, z, srcKind, dstKind) ==
    Emit("Move", [k |-> k, x |-> x, z |-> z, srcKind |-> srcKind, dstKind |-> dstKind],
         IF k THEN allocRegister(builder, srcKind, z)
         ELSE allocRegister(allocRegister(builder, srcKind, x), srcKind, z),
         Unchanged(fn), FALSE, <<InstrMove(k, x, z, srcKind, dstKind)>>,
         {Reg(dstKind, z)} \cup (IF k THEN {} ELSE {Reg(srcKind, x)}), 0)

\* dst = expr[i], with the kind of the type of expr.
InstrIndex(ki, expr, i, dst, kind) ==
    Instruction(Negated(ki, Op(CASE kind = "Slice" -> "OpSliceIndex"
                                 [] kind = "String" -> "OpStringIndex"
                                 [] kind = "Map" -> "OpMapIndex"
                                 [] OTHER -> "OpIndex", "")), expr, i, dst)

Index(ki, expr, i, dst, kind) ==
    Emit("Index", [k |-> ki, expr |-> expr, i |-> i, dst |-> dst, kind |-> kind],
         builder, Unchanged(fn), FALSE, <<InstrIndex(ki, expr, i, dst, kind)>>,
         {Reg(kind, expr)} \cup (IF ki \/ kind = "Map" THEN {} ELSE {Reg("Int", i)}), 0)

\* case ch <- value, case value = <-ch, default
InstrCase(kvalue, dir, value, ch, kind) ==
    Instruction(Negated(kvalue, Op("OpCase", "")), dir, value, ch)

Case(kvalue, dir, value, ch, kind) ==
    Emit("Case", [k |-> kvalue, dir |-> dir, value |-> value, ch |-> ch, kind |-> kind],
         LET b == IF ~ kvalue /\ value # 0 THEN allocRegister(builder, kind, value)
                  ELSE builder
         IN IF ch # 0 THEN allocRegister(b, "Interface", ch) ELSE b,
         Unchanged(fn), FALSE, <<InstrCase(kvalue, dir, value, ch, kind)>>,
         (IF ~ kvalue /\ value # 0 THEN {Reg(kind, value)} ELSE {})
         \cup (IF ch # 0 THEN {Reg("Interface", ch)} ELSE {}), 0)

\* m[key] = value
InstrSetMap(k, m, value, key) ==
    Instruction(Negated(k, Op("OpSetMap", "")), m, value, key)

SetMap(k, m, value, key) ==
    Emit("SetMap", [k |-> k, m |-> m, value |-> value, key |-> key],
         builder, Unchanged(fn), FALSE, <<InstrSetMap(k, m, value, key)>>,
         {Reg("Interface", m)}, 0)

\* slice[index] = value
InstrSetSlice(k, slice, value, index, elemKind) ==
    Instruction(Negated(k, Op("OpSetSlice", "")), slice, value, index)

SetSlice(k, slice, value, index, elemKind) ==
    Emit("SetSlice", [k |-> k, slice |-> slice, value |-> value, index |-> index,
                      elemKind |-> elemKind],
         builder, Unchanged(fn), FALSE,
         <<InstrSetSlice(k, slice, value, index, elemKind)>>,
         {Reg("Interface", slice), Reg("Int", index)}
         \cup (IF k THEN {} ELSE {Reg(elemKind, value)}), 0)

\* dst = make(typ, capacity)
InstrMakeChan(typ, kCapacity, capacity, dst) ==
    Instruction(Negated(kCapacity, Op("OpMakeChan", "")), typ, capacity, dst)

MakeChan(typ, kCapacity, capacity, dst) ==
    Emit("MakeChan", [k |-> kCapacity, typ |-> typ, capacity |-> capacity, dst |-> dst],
         builder, Unchanged(fn), FALSE,
         <<InstrMakeChan(typ, kCapacity, capacity, dst)>>,
         {Reg("Interface", dst)} \cup (IF kCapacity THEN {} ELSE {Reg("Int", capacity)}), 0)

\* dst = make(typ, size)
InstrMakeMap(typ, kSize, size, dst) ==
    Instruction(Negated(kSize, Op("OpMakeMap", "")), typ, size, dst)

MakeMap(typ, kSize, size, dst) ==
    Emit("MakeMap", [k |-> kSize, typ |-> typ, size |-> size, dst |-> dst],
         builder, Unchanged(fn), FALSE, <<InstrMakeMap(typ, kSize, size, dst)>>,
         {Reg("Interface", dst)} \cup (IF kSize THEN {} ELSE {Reg("Int", size)}), 0)

\* The operation of a binary bit operator for a kind: 0 for an operator
\* that is none of the six.
BitOperation(operator, kind) ==
    CASE operator = "And" -> Op("OpAnd", "")
      [] operator = "Or" -> Op("OpOr", "")
      [] operator = "Xor" -> Op("OpXor", "")
      [] operator = "AndNot" -> Op("OpAndNot", "")
      [] operator = "LeftShift" ->
            Op("OpLeftShift", CASE kind \in {"Int8", "Uint8"} -> "8"
                                [] kind \in {"Int16", "Uint16"} -> "16"
                                [] kind \in {"Int32", "Uint32"} -> "32"
                                [] OTHER -> "")
      [] operator = "RightShift" ->
            Op("OpRightShift",
               IF kind \in {"Uint", "Uint8", "Uint16", "Uint32", "Uint64"} THEN "U" ELSE "")
      [] OTHER -> 0

\* dst = x op y
InstrBinaryBitOperation(operator, ky, x, y, dst, kind) ==
    Instruction(Negated(ky, BitOperation(operator, kind)), x, y, dst)

BinaryBitOperation(operator, ky, x, y, dst, kind) ==
    Emit("BinaryBitOperation",
         [k |-> ky, operator |-> operator, x |-> x, y |-> y, dst |-> dst, kind |-> kind],
         builder, Unchanged(fn), FALSE,
         <<InstrBinaryBitOperation(operator, ky, x, y, dst, kind)>>,
         BinaryRegs(ky, x, y, dst, kind), 0)

\* reflect.TypeOf(0), reflect.TypeOf(0.0), reflect.TypeOf(""): types are
\* numbered, these are the first three.
intType == 1

float64Type == 2

stringType == 3

\* The default case of Assert: the index of typ, appended if not found.
assertType(f, typ) ==
    IF IndexOfType(f.Types, typ) >= 0
    THEN Outcome(f, Int8(IndexOfType(f.Types, typ)), FALSE)
    ELSE Outcome([f EXCEPT !.Types = Append(@, typ)], Int8(Len(f.Types)), FALSE)

BasicTypes == {intType, float64Type, stringType}

\* The kind of the register z of z = e.(typ).
AssertKind(typ) ==
    CASE typ = intType -> "Int"
      [] typ = float64Type -> "Float64"
      [] typ = stringType -> "String"
      [] OTHER -> "Interface"

\* z = e.(typ)
BuilderAssert(e, typ, z) ==
    LET o == IF typ \in BasicTypes THEN Unchanged(fn) ELSE assertType(fn, typ)
    IN Emit("Assert", [e |-> e, typ |-> typ, z |-> z],
            allocRegister(allocRegister(builder, "Interface", e), AssertKind(typ), z),
            o, FALSE,
            <<Instruction(Op("OpAssert", CASE typ = intType -> "Int"
                                           [] typ = float64Type -> "Float64"
                                           [] typ = stringType -> "String"
                                           [] OTHER -> ""), e, o.val, z)>>,
            {Reg("Interface", e), Reg(AssertKind(typ), z)}, 0)

\* z = new(typ)
New(typ, z) ==
    LET o == addType(fn, typ)
    IN Emit("New", [typ |-> typ, z |-> z], allocRegister(builder, "Interface", z),
            o, FALSE, <<Instruction(Op("OpNew", ""), Int8(o.val), 0, z)>>,
            {Reg("Interface", z)}, 0)

\* dst = typ(src)
Convert(src, typ, dst, srcKind) ==
    LET o == typeIndex(fn, typ)
    IN Emit("Convert", [src |-> src, typ |-> typ, dst |-> dst, srcKind |-> srcKind],
            IF o.fatal THEN builder ELSE allocRegister(builder, "Interface", dst),
            o, FALSE,
            <<Instruction(Op("OpConvert",
                             CASE kindToType(srcKind) = "TypeIface" -> ""
                               [] kindToType(srcKind) = "TypeString" -> "String"
                               [] kindToType(srcKind) = "TypeFloat" -> "Float"
                               [] srcKind \in {"Uint", "Uint8", "Uint16", "Uint32",
                                               "Uint64", "Uintptr"} -> "Uint"
                               [] OTHER -> "Int"), src, o.val, dst)>>,
            {Reg(srcKind, src), Reg("Interface", dst)}, 0)

\* The operand B of MakeSlice.
SliceFlags(kLen, kCap, len, cap) ==
    IF len = 0 /\ cap = 0 THEN 1
    ELSE (IF kLen THEN 2 ELSE 0) + (IF kCap THEN 4 ELSE 0)

\* dst = make(sliceType, len, cap)
MakeSlice(kLen, kCap, sliceType, len, cap, dst) ==
    LET o == typeIndex(fn, sliceType)
        k == SliceFlags(kLen, kCap, len, cap)
    IN Emit("MakeSlice", [kLen |-> kLen, kCap |-> kCap, typ |-> sliceType,
                          len |-> len, cap |-> cap, dst |-> dst],
            allocRegister(builder, "Interface", dst), o, FALSE,
            <<Instruction(Op("OpMakeSlice", ""), o.val, k, dst)>>
            \o (IF k > 1 THEN <<Instruction(0, len, cap, 0)>> ELSE <<>>),
            {Reg("Interface", dst)}, 0)

\* r = func() { ... }
Func(r, typ) ==
    IF Len(fn.Literals) = 256
    THEN Emit("Func", [r |-> r, typ |-> typ], builder, Outcome(fn, 0, TRUE), FALSE,
              <<>>, {}, 0)
    ELSE Emit("Func", [r |-> r, typ |-> typ], allocRegister(builder, "Interface", r),
              Unchanged([fn EXCEPT !.Literals = Append(@, typ)]), FALSE,
              <<Instruction(Op("OpFunc", ""), 0, Int8(Len(fn.Literals)), r)>>,
              {Reg("Interface", r)}, 0)

Nop ==
    /\ CanCall
    /\ fn' = [fn EXCEPT !.Body.len = @ + 1]
    /\ result' = Returned("Nop", NoArgs, 0)
    /\ UNCHANGED <<parserVars, unitVars, builder, uses, entered, bound>>

EncodesLowByteOnly(v) == <<Int8(v % 256), 0, 0>>

\* encodeAddr(v): int8(uint8(v)), int8(uint8(v >> 8)), int8(uint8(v >> 16))
encodeAddr(v) ==
    <<Int8(v % 256), Int8((v \div 256) % 256), Int8((v \div 65536) % 256)>>

\* in.A, in.B, in.C = encodeAddr(addr)
WithAddr(in, addr) ==
    [in EXCEPT !.A = encodeAddr(addr)[1], !.B = encodeAddr(addr)[2],
               !.C = encodeAddr(addr)[3]]

\* goto label
Goto(label) ==
    /\ CanCall
    /\ IF label > Len(builder.labels)
       THEN /\ result' = Panicked("Goto", [label |-> label])
            /\ UNCHANGED <<fn, builder, uses>>
       ELSE /\ result' = Returned("Goto", [label |-> label], 0)
            /\ uses' = MapPut(uses, CurrentAddr(fn), [regs |-> {}, label |-> label])
            /\ builder' = IF label > 0 /\ builder.labels[label] = 0
                          THEN [builder EXCEPT !.gotos = MapPut(@, CurrentAddr(fn), label)]
                          ELSE builder
            /\ fn' = appendBody(fn,
                       <<IF label > 0 /\ builder.labels[label] # 0
                         THEN WithAddr(Instruction(Op("OpGoto", ""), 0, 0, 0),
                                       builder.labels[label])
                         ELSE Instruction(Op("OpGoto", ""), 0, 0, 0)>>)
    /\ UNCHANGED <<parserVars, unitVars, entered, bound>>

\* End: the pending gotos get the addresses of their labels, fn.RegNum gets
\* the maxima of maxRegs.
End ==
    /\ CanCall
    /\ fn' = [fn EXCEPT
                !.Body.ins = [a \in DOMAIN @ |->
                                IF a \in DOMAIN builder.gotos
                                THEN WithAddr(@[a], builder.labels[builder.gotos[a]])
                                ELSE @[a]],
                !.RegNum = [c \in DOMAIN @ |->
                              LET nums == {builder.maxRegs[kd] :
                                             kd \in {x \in DOMAIN builder.maxRegs :
                                                       RegNumOf(x) = c}}
                              IN IF \E num \in nums : num > @[c]
                                 THEN CHOOSE num \in nums : \A m \in nums : m <= num
                                 ELSE @[c]]]
    /\ builder' = [builder EXCEPT !.gotos = EmptyMap]
    /\ result' = Returned("End", NoArgs, 0)
    /\ UNCHANGED <<parserVars, unitVars, uses, entered, bound>>

(***************************************************************************)
(* SpecRegisters: registers, scopes and stacks.                            *)
(***************************************************************************)

\* The builder after n calls of NewRegister(kind): registers 1..n.
AfterNewRegisters(b, kind, n) ==
    IF n = 0 THEN b
    ELSE [b EXCEPT !.maxRegs = MapPut(@, RegisterKind(kind), n),
                   !.numRegs = MapPut(@, RegisterKind(kind), n)]

\* The numbers of Int registers the runs start with.
StartRegisters == {0, 125}

WorkersIdle ==
    /\ impl = "parser"
    /\ fs = EmptyMap
    /\ trees = [c \in {"shared"} |-> EmptyMap]
    /\ waits = [c \in {"shared"} |-> {}]
    /\ pc = [w \in Workers |-> "idle"]
    /\ arg = [w \in Workers |-> Key(<<>>, "")]
    /\ got = [w \in Workers |-> [tree |-> Nil, ok |-> FALSE]]
    /\ held = [w \in Workers |-> {}]
    /\ prev = <<>>
    /\ stack = [w \in Workers |-> <<>>]
    /\ paths = [w \in Workers |-> <<>>]
    /\ ret = [w \in Workers |-> <<>>]
    /\ outcome = [w \in Workers |-> <<>>]
    /\ calls = [w \in Workers |-> 0]
    /\ reads = [c \in {"shared"} |-> EmptyMap]
    /\ fails = [c \in {"shared"} |-> EmptyMap]
    /\ badDone = FALSE

InitParserIdle ==
    /\ WorkersIdle
    /\ UnitsIdle

InitRegisters ==
    /\ InitParserIdle
    /\ fn = NewScrigoFunction
    /\ \E n \in StartRegisters : builder = AfterNewRegisters(NewBuilder, "Int", n)
    /\ result = NoCall
    /\ uses = EmptyMap
    /\ entered = <<>>
    /\ bound = <<>>

NextRegisters ==
    \/ EnterScope
    \/ ExitScope
    \/ EnterStack
    \/ ExitStack
    \/ \E kind \in {"Int", "String"} : NewRegister(kind)
    \/ \E k \in BOOLEAN : BuilderAdd(k, 1, 3, 2, "Int")
    \/ Index(FALSE, 1, 2, 1, "Slice")
    \/ End

SpecRegisters == InitRegisters /\ [][NextRegisters]_vars

\* C12 (as stated): after End, every operand of an instruction of the body
\* that names a register is, in absolute value, at most the number of
\* registers of its class in fn.RegNum.
C12_RegistersWithinRegNum ==
    result.call = "End" =>
        \A a \in DOMAIN uses : \A r \in uses[a].regs : Abs(r[2]) <= fn.RegNum[r[1]]

\* C13: an ExitScope or ExitStack leaves, for each of the four kinds, the
\* number of registers its EnterScope or EnterStack found, and leaves the
\* maxima alone; a NewRegister returns the number of registers of the kind
\* plus one, so the registers given up are handed out again.
C13_ExitRestoresCounts ==
    [][/\ (result'.n = result.n + 1 /\ result'.call \in {"ExitScope", "ExitStack"})
          => /\ Counts(builder') = result'.args.counts
             /\ builder'.maxRegs = builder.maxRegs
       /\ (result'.n = result.n + 1 /\ result'.call = "NewRegister"
           /\ NumRegs(builder, RegisterKind(result'.args.kind)) < 127)
          => /\ result'.val = NumRegs(builder, RegisterKind(result'.args.kind)) + 1
             /\ NumRegs(builder', RegisterKind(result'.args.kind)) = result'.val
             /\ MaxRegs(builder', RegisterKind(result'.args.kind)) >= result'.val]_vars

\* EnterStack; NewRegister(Int) = 1; NewRegister(Int) = 2; ExitStack;
\* NewRegister(Int) = 1, with the maximum still 2.
C13_Witness ==
    /\ result.call = "NewRegister"
    /\ result.args.kind = "Int"
    /\ result.val = 1
    /\ result.n = 5
    /\ entered = <<>>
    /\ builder.scopeShifts = <<>>
    /\ NumRegs(builder, "Int") = 1
    /\ MaxRegs(builder, "Int") = 2
    /\ NumRegs(builder, "String") = 0

\* C18: a NewRegister that returns gives an index in 1..127.
C18_NewRegisterWithinRange ==
    (result.call = "NewRegister" /\ ~ result.fatal) => result.val \in 1..127

(***************************************************************************)
(* SpecLabels: labels and jumps.                                           *)
(***************************************************************************)

\* The numbers of Nop instructions the runs start with.
StartAddrs == {0, 127, 255, 32767, 65535, 8388607, 16777200}

\* The function after n calls of Nop.
AfterNops(f, n) == [f EXCEPT !.Body.len = @ + n]

InitLabels ==
    /\ InitParserIdle
    /\ \E n \in StartAddrs : fn = AfterNops(NewScrigoFunction, n)
    /\ builder = NewBuilder
    /\ result = NoCall
    /\ uses = EmptyMap
    /\ entered = <<>>
    /\ bound = <<>>

NextLabels ==
    \/ NewLabel
    \/ \E label \in 1..MaxCalls : SetLabelAddr(label)
    \/ \E label \in 0..MaxCalls : Goto(label)
    \/ Nop
    \/ End

SpecLabels == InitLabels /\ [][NextLabels]_vars

\* The address in the operands of a jump: three unsigned bytes, A the lowest.
DecodeAddr(in) == Uint8(in.A) + 256 * Uint8(in.B) + 65536 * Uint8(in.C)

\* C14: after End, the operands of every Goto with a label that SetLabelAddr
\* has bound once, to an address below 2^24, decode to that address,
\* whether the label was bound before or after the Goto was emitted.
C14_GotoDecodesToLabelAddr ==
    result.call = "End" =>
        \A a \in DOMAIN uses :
            (/\ uses[a].label > 0
             /\ Len(bound[uses[a].label]) = 1
             /\ bound[uses[a].label][1] < 2 ^ 24)
            => DecodeAddr(InstructionAt(fn, a)) = bound[uses[a].label][1]

\* lbl = NewLabel; Goto(lbl) at address 65535; Nop; SetLabelAddr(lbl); End:
\* the Goto decodes to 65537.
C14_Witness ==
    /\ result.call = "End"
    /\ 65535 \in DOMAIN uses
    /\ uses[65535].label = 1
    /\ bound[1] = <<65537>>
    /\ InstructionAt(fn, 65535).A = 1
    /\ InstructionAt(fn, 65535).B = 0
    /\ InstructionAt(fn, 65535).C = 1

\* A label bound at address 0 before its Goto: the jump is resolved by End.
C14_WitnessBackward ==
    /\ result.call = "End"
    /\ \E a \in DOMAIN uses :
          /\ uses[a].label = 1
          /\ bound[1] = <<0>>
          /\ a > 0

(***************************************************************************)
(* SpecOperations: the instructions with a constant flag.                  *)
(***************************************************************************)

\* The most instructions of a body in the runs of SpecOperations.
MaxInstructions == 2

InitOperations ==
    /\ InitParserIdle
    /\ BuilderIdle

\* The body has room for another instruction.
CanEmit == CurrentAddr(fn) < MaxInstructions

NextOperations ==
    \/ \E k \in BOOLEAN, kind \in {"Int", "Float64"} :
          CanEmit /\ BuilderAdd(k, 1, 5, 2, kind)
    \/ \E k \in BOOLEAN, kind \in {"Int", "Float64"} :
          CanEmit /\ Sub(k, 1, 5, 2, kind)
    \/ \E k \in BOOLEAN, kind \in {"Int", "Float64"} :
          CanEmit /\ SubInv(k, 1, 5, 2, kind)
    \/ \E k \in BOOLEAN, kind \in {"Int8", "Float32"} :
          CanEmit /\ Mul(k, 1, 5, 2, kind)
    \/ \E k \in BOOLEAN, kind \in {"Int", "Uint8"} :
          CanEmit /\ Div(k, 1, 5, 2, kind)
    \/ \E k \in BOOLEAN, kind \in {"Int16", "Uint"} :
          CanEmit /\ Rem(k, 1, 5, 2, kind)
    \/ \E k \in BOOLEAN, kind \in {"Int", "String"} :
          CanEmit /\ BuilderIf(k, 1, 3, 5, kind)
    \/ \E k \in BOOLEAN, srcKind, dstKind \in {"Int", "Interface"} :
          CanEmit /\ Move(k, 5, 2, srcKind, dstKind)
    \/ \E k \in BOOLEAN, kind \in {"Slice", "Map"} :
          CanEmit /\ Index(k, 1, 5, 2, kind)
    \/ \E k \in BOOLEAN : CanEmit /\ Case(k, 1, 5, 2, "Int")
    \/ \E k \in BOOLEAN : CanEmit /\ SetMap(k, 1, 5, 2)
    \/ \E k \in BOOLEAN : CanEmit /\ SetSlice(k, 1, 5, 2, "Int")
    \/ \E k \in BOOLEAN : CanEmit /\ MakeChan(1, k, 5, 2)
    \/ \E k \in BOOLEAN : CanEmit /\ MakeMap(1, k, 5, 2)
    \/ \E k \in BOOLEAN, operator \in {"And", "LeftShift"}, kind \in {"Int", "Int8"} :
          CanEmit /\ BinaryBitOperation(operator, k, 1, 5, 2, kind)

SpecOperations == InitOperations /\ [][NextOperations]_vars

\* The calls that take a constant flag.
FlagFamilies ==
    {"Add", "Sub", "SubInv", "Mul", "Div", "Rem", "If", "Move", "Index", "Case",
     "SetMap", "SetSlice", "MakeChan", "MakeMap", "BinaryBitOperation"}

\* The instruction a call emits for its arguments when the flag is false.
WithoutFlag(call, a) ==
    CASE call = "Add" -> InstrAdd(FALSE, a.x, a.y, a.z, a.kind)
      [] call = "Sub" -> InstrSub(FALSE, a.x, a.y, a.z, a.kind)
      [] call = "SubInv" -> InstrSubInv(FALSE, a.x, a.y, a.z, a.kind)
      [] call = "Mul" -> InstrMul(FALSE, a.x, a.y, a.z, a.kind)
      [] call = "Div" -> InstrDiv(FALSE, a.x, a.y, a.z, a.kind)
      [] call = "Rem" -> InstrRem(FALSE, a.x, a.y, a.z, a.kind)
      [] call = "If" -> InstrIf(FALSE, a.x, a.o, a.y, a.kind)
      [] call = "Move" -> InstrMove(FALSE, a.x, a.z, a.srcKind, a.dstKind)
      [] call = "Index" -> InstrIndex(FALSE, a.expr, a.i, a.dst, a.kind)
      [] call = "Case" -> InstrCase(FALSE, a.dir, a.value, a.ch, a.kind)
      [] call = "SetMap" -> InstrSetMap(FALSE, a.m, a.value, a.key)
      [] call = "SetSlice" -> InstrSetSlice(FALSE, a.slice, a.value, a.index, a.elemKind)
      [] call = "MakeChan" -> InstrMakeChan(a.typ, FALSE, a.capacity, a.dst)
      [] call = "MakeMap" -> InstrMakeMap(a.typ, FALSE, a.size, a.dst)
      [] call = "BinaryBitOperation" ->
            InstrBinaryBitOperation(a.operator, FALSE, a.x, a.y, a.dst, a.kind)

\* The instruction the last call appended.
LastInstruction == InstructionAt(fn, CurrentAddr(fn) - 1)

\* C15: a call of a family with a constant flag appends one instruction
\* whose opcode is the positive base opcode when the flag is false and its
\* negation when the flag is true, with the same operands in both cases.
C15_OpcodeNegatedIffConstant ==
    (result.call \in FlagFamilies /\ ~ result.fatal) =>
        LET base == WithoutFlag(result.call, result.args)
        IN /\ base.Op > 0
           /\ LastInstruction.Op = IF result.args.k THEN - base.Op ELSE base.Op
           /\ LastInstruction.A = base.A
           /\ LastInstruction.B = base.B
           /\ LastInstruction.C = base.C

\* Add(true, 1, 5, 2, Int) appends {Op: -OpAddInt, A: 1, B: 5, C: 2}.
C15_Witness ==
    /\ result.call = "Add"
    /\ result.args = ArithArgs(TRUE, 1, 5, 2, "Int")
    /\ LastInstruction = Instruction(- Op("OpAdd", "Int"), 1, 5, 2)
    /\ Op("OpAdd", "Int") > 0

(***************************************************************************)
(* SpecConstants: the constant pools.                                      *)
(***************************************************************************)

\* The numbers of entries the pools and the tables start with.
StartEntries == {0, 127, 255}

\* A pool or table of n entries.
Filled(n) == [j \in 1..n |-> 0]

\* The function after n calls of each Make*Constant that is not
\* MakeInterfaceConstant.
AfterConstants(f, n) ==
    [f EXCEPT !.Constants = [Int |-> Filled(n), Float |-> Filled(n),
                             String |-> Filled(n), General |-> Filled(n)]]

InitConstants ==
    /\ InitParserIdle
    /\ \E n \in StartEntries : fn = AfterConstants(NewScrigoFunction, n)
    /\ builder = NewBuilder
    /\ result = NoCall
    /\ uses = EmptyMap
    /\ entered = <<>>
    /\ bound = <<>>

NextConstants ==
    \/ MakeStringConstant(1)
    \/ MakeFloatConstant(1)
    \/ MakeIntConstant(1)
    \/ \E c \in {1, 2} : MakeGeneralConstant(c)
    \/ \E c \in {1, 2} : MakeInterfaceConstant(c)

SpecConstants == InitConstants /\ [][NextConstants]_vars

Pools == {"Int", "Float", "String", "General"}

\* C16: no constant pool ever holds more than 256 entries.
C16_PoolsWithinLimit ==
    \A pool \in Pools : Len(fn.Constants[pool]) <= 256

\* C17: a MakeInterfaceConstant that returns gives an index in [-128, -1]
\* that designates the entry just appended, General[-index-1], the last of
\* the pool.
C17_InterfaceIndexDesignatesEntry ==
    (result.call = "MakeInterfaceConstant" /\ ~ result.fatal) =>
        /\ result.val \in (-128)..(-1)
        /\ Len(fn.Constants.General) = - result.val
        /\ fn.Constants.General[- result.val] = result.args.c

(***************************************************************************)
(* SpecTables: the tables of types, variables, functions and literals.     *)
(***************************************************************************)

\* The numbers of entries the tables start with.
StartTables == {0, 255}

\* The types of a table of n types: none of them is a basic type.
FilledTypes(n) == [j \in 1..n |-> j + stringType]

\* The function after n calls of AddType, AddVariable, AddNativeFunction,
\* AddScrigoFunction and Func with different types.
AfterEntries(f, n) ==
    [f EXCEPT !.Types = FilledTypes(n), !.Variables = Filled(n),
              !.NativeFunctions = Filled(n), !.ScrigoFunctions = Filled(n),
              !.Literals = Filled(n)]

\* A type of FilledTypes(n), n > 0, and two that are in no filled table.
OldType == 1 + stringType
NewTypes == {1000, 1001}

InitTables ==
    /\ InitParserIdle
    /\ \E n \in StartTables : fn = AfterEntries(NewScrigoFunction, n)
    /\ builder = NewBuilder
    /\ result = NoCall
    /\ uses = EmptyMap
    /\ entered = <<>>
    /\ bound = <<>>

NextTables ==
    \/ \E typ \in NewTypes \cup {OldType} : AddType(typ)
    \/ \E typ \in NewTypes \cup {OldType} : Type(typ)
    \/ \E typ \in NewTypes \cup {intType} : BuilderAssert(1, typ, 2)
    \/ New(1000, 1)
    \/ Convert(1, 1001, 2, "Int")
    \/ \E len \in {0, 1} : MakeSlice(TRUE, FALSE, 1000, len, 0, 1)
    \/ AddVariable(0)
    \/ AddNativeFunction(0)
    \/ AddScrigoFunction(0)
    \/ Func(1, 1000)

SpecTables == InitTables /\ [][NextTables]_vars

\* C19: Type and AddType on a type the table holds return its index and
\* add nothing, at every table size; on a type the table does not hold they
\* fail only when the table holds 256 types.
C19_TypeAndAddTypeDeduplicate ==
    result.call \in {"AddType", "Type"} =>
        IF result.fatal
        THEN /\ IndexOfType(fn.Types, result.args.typ) < 0
             /\ Len(fn.Types) >= 256
        ELSE /\ IndexOfType(fn.Types, result.args.typ) >= 0
             /\ Uint8(result.val) = IndexOfType(fn.Types, result.args.typ)

Tables == {"Types", "Variables", "NativeFunctions", "ScrigoFunctions", "Literals"}

\* C20: no table ever holds more than 256 entries.
C20_TablesWithinLimit ==
    \A table \in Tables : Len(fn[table]) <= 256

(***************************************************************************)
(* SpecAlloc: allocRegister called for registers named by the caller.      *)
(***************************************************************************)

\* builder.allocRegister(kind, reg)
AllocRegister(kind, reg) ==
    /\ CanCall
    /\ builder' = allocRegister(builder, kind, reg)
    /\ result' = Returned("allocRegister", [kind |-> kind, reg |-> reg], 0)
    /\ UNCHANGED <<parserVars, unitVars, fn, uses, entered, bound>>

\* The registers allocRegister is called with.
AllocRegs == {-128, -1, 0, 1, 3, 127}

NextAlloc ==
    \/ \E kind \in {"Int", "Float32", "String", "Slice"}, reg \in AllocRegs :
          AllocRegister(kind, reg)
    \/ NewRegister("Int")
    \/ EnterStack
    \/ ExitStack

SpecAlloc == InitRegisters /\ [][NextAlloc]_vars

Max(a, b) == IF a > b THEN a ELSE b

\* The last step is a call of allocRegister.
AllocStep == result'.n = result.n + 1 /\ result'.call = "allocRegister"

C28_NewRegisterReturnsNextCount ==
    [][(result'.n = result.n + 1 /\ result'.call = "NewRegister") =>
          /\ ~ result'.fatal
          /\ result'.val = NumRegs(builder, RegisterKind(result'.args.kind)) + 1
          /\ NumRegs(builder', RegisterKind(result'.args.kind)) = result'.val]_vars

\* The calls that emit an arithmetic instruction.
ArithFamilies == {"Add", "Sub", "SubInv", "Mul", "Div", "Rem"}

\* C29: an arithmetic call raises the maxima as allocRegister does for x
\* and z, and for y unless it is a constant, under the kind of the
\* instruction, and raises nothing else.
C29_ArithRegistersItsOperands ==
    [][(result'.n = result.n + 1 /\ result'.call \in ArithFamilies /\ ~ result'.fatal) =>
          LET a == result'.args
          IN \A kd \in RegisterKinds :
                MaxRegs(builder', kd)
                   = MaxRegs(AllocUnlessConstant(builder, a.k, a.x, a.y, a.z, a.kind), kd)]_vars

\* C30: MakeIntConstant, MakeFloatConstant, MakeStringConstant and
\* MakeGeneralConstant return indices that are not negative.
C30_ConstantIndexNotNegative ==
    (/\ result.call \in {"MakeIntConstant", "MakeFloatConstant",
                         "MakeStringConstant", "MakeGeneralConstant"}
     /\ ~ result.fatal)
    => result.val >= 0

(***************************************************************************)
(* SpecLookup: Package.LookupFunc of DeclarationsPackage and of            *)
(* CombinedPackage.                                                        *)
(***************************************************************************)

\* The names of the declarations, and what a LookupFunc returns for one.
DeclNames == {"a", "b", "c"}
LookupErrors == {"nil", "StopLookup", "err"}

\* The packages: a DeclarationsPackage is the set of its names, a
\* CombinedPackage a sequence of at most MaxPackages DeclarationsPackages.
MaxPackages == 2
DeclarationsPackages == SUBSET DeclNames
CombinedPackages ==
    UNION {[1..n -> DeclarationsPackages] : n \in 0..MaxPackages}

\* p.LookupFunc(f) has been called.
LookupCalled(kind, pkgs, f) ==
    [kind |-> kind, pkgs |-> pkgs, f |-> f, i |-> 1,
     rest |-> IF kind = "Declarations" THEN pkgs[1] ELSE {},
     names |-> {}, called |-> <<>>, err |-> "nil",
     pc |-> IF kind = "Declarations" THEN "range" ELSE "packages",
     ret |-> "nil"]

InitLookup ==
    /\ WorkersIdle
    /\ BuilderIdle
    /\ parsing = <<>>
    /\ texts = <<>>
    /\ \E f \in [DeclNames -> LookupErrors] :
          \/ \E p \in DeclarationsPackages :
                lookup = LookupCalled("Declarations", <<p>>, f)
          \/ \E ps \in CombinedPackages :
                lookup = LookupCalled("Combined", ps, f)

OuterErrSet(l, e) == [l EXCEPT !.err = e]

\* if err := f(n, d); err != nil { break }: the err of the loop is a new
\* variable, the err LookupFunc returns is not assigned.
OuterErrKept(l, e) == l

\* One iteration of "for n, d := range p.Declarations" of
\* DeclarationsPackage.LookupFunc, called with f or with the w of
\* CombinedPackage.LookupFunc. The order of the range is undefined.
RangeCall ==
    /\ lookup.pc = "range"
    /\ \E n \in lookup.rest :
          LET l == [lookup EXCEPT !.rest = @ \ {n}]
          IN IF lookup.kind = "Declarations"
             THEN lookup' = [OuterErrKept(l, lookup.f[n]) EXCEPT
                                !.called = Append(@, n),
                                !.pc = IF lookup.f[n] # "nil" THEN "return" ELSE @]
             ELSE IF n \notin lookup.names
             THEN lookup' = [OuterErrSet(l, lookup.f[n]) EXCEPT
                                !.called = Append(@, n),
                                !.names = @ \cup {n},
                                !.pc = IF lookup.f[n] # "nil" THEN "after" ELSE @]
             ELSE lookup' = [l EXCEPT !.pc = IF lookup.err # "nil" THEN "after" ELSE @]
    /\ UNCHANGED <<parserVars, builderVars, parsing, texts>>

\* The range loop has visited every declaration.
RangeEnd ==
    /\ lookup.pc = "range"
    /\ lookup.rest = {}
    /\ lookup' = [lookup EXCEPT
                     !.pc = IF lookup.kind = "Declarations" THEN "return" ELSE "after"]
    /\ UNCHANGED <<parserVars, builderVars, parsing, texts>>

\* for _, pkg := range packages { _ = pkg.LookupFunc(w) ...
NextPackage ==
    /\ lookup.pc = "packages"
    /\ lookup' = IF lookup.i > Len(lookup.pkgs)
                 THEN [lookup EXCEPT !.pc = "return"]
                 ELSE [lookup EXCEPT !.rest = lookup.pkgs[lookup.i], !.pc = "range"]
    /\ UNCHANGED <<parserVars, builderVars, parsing, texts>>

\* ... if err != nil { break } }
AfterPackage ==
    /\ lookup.pc = "after"
    /\ lookup' = IF lookup.err # "nil"
                 THEN [lookup EXCEPT !.pc = "return"]
                 ELSE [lookup EXCEPT !.i = @ + 1, !.pc = "packages"]
    /\ UNCHANGED <<parserVars, builderVars, parsing, texts>>

\* if err == StopLookup { err = nil }; return err
LookupReturn ==
    /\ lookup.pc = "return"
    /\ lookup' = [lookup EXCEPT !.pc = "done",
                                !.ret = IF lookup.err = "StopLookup" THEN "nil"
                                        ELSE lookup.err]
    /\ UNCHANGED <<parserVars, builderVars, parsing, texts>>

NextLookup == RangeCall \/ RangeEnd \/ NextPackage \/ AfterPackage \/ LookupReturn

SpecLookup == InitLookup /\ [][NextLookup]_vars

\* What the calls of f made so far returned.
Returns(l) == [j \in 1..Len(l.called) |-> l.f[l.called[j]]]

\* C24: f is not called again after it has returned an error, and
\* LookupFunc returns the error f returned, nil for StopLookup, and nil
\* when f never returned an error.
C24_LookupFuncReturnsError ==
    /\ lookup # <<>> =>
          \A j \in 1..(Len(lookup.called) - 1) : Returns(lookup)[j] = "nil"
    /\ (lookup # <<>> /\ lookup.pc = "done") =>
          lookup.ret = IF lookup.called = <<>> THEN "nil"
                       ELSE IF Returns(lookup)[Len(lookup.called)] = "StopLookup" THEN "nil"
                       ELSE Returns(lookup)[Len(lookup.called)]

\* ---------------------------------------------------------------------
\* ParseSource and parseStatement (src/parser/parser.go).
\*
\* A source is read as the tokens its lexer yields.  One token of the
\* model stands for a text, a comment, a value or a whole statement: its
\* typ is the token that selects the case of parseStatement, ok says
\* whether the tokens that follow inside the statement are the ones the
\* parser expects, and form is the variant the statement's case looks at.
\* A node is kept with what the parser reads of it later: its type, the
\* number of cases of a switch, whether the Else of an if is set.  The
\* children of the root are kept as the sequence of their types.  URL
\* tokens, default and fallthrough are not drawn.
\* ---------------------------------------------------------------------

MaxTokens == 5

\* ast.ContextNone, a template context, and a context ParseSource rejects.
Contexts == {"None", "HTML", "Attribute"}

NoToken == [typ |-> "", ok |-> TRUE, form |-> ""]

Forms(typ) ==
    CASE typ = "for" -> {"For", "ForRange"}
      [] typ = "switch" -> {"Switch", "TypeSwitch"}
      [] typ = "else" -> {"else", "else if", "other"}
      [] typ = "}" -> {";", "EOF", "other", "else", "else if"}
      [] typ = "end" -> {"", "for", "if", "macro"}
      [] typ \in {"include", "extends", "import"} -> {"valid", "invalid", "missing"}
      [] OTHER -> {""}

\* What follows a "}" is its form.
Tokens(typ) ==
    {[typ |-> typ, ok |-> o, form |-> f] :
        o \in IF typ = "}" THEN {TRUE} ELSE BOOLEAN, f \in Forms(typ)}

\* base is the number of ancestors there were before the statement that
\* opened the construct the node belongs to (for, switch, macro, or the
\* first if of a chain); the parser does not read it.
NewNode(kind) == [node |-> kind, cases |-> 0, else |-> FALSE, base |-> 0]

NewParsing(ctx) ==
    [ctx |-> ctx, ancestors |-> <<NewNode("Tree")>>, nodes |-> <<>>,
     isExtended |-> FALSE, isInMacro |-> FALSE,
     pc |-> "tokens", tree |-> TRUE, err |-> "nil", n |-> 0, last |-> NoToken]

\* ParseSource up to its token loop.
ParseSource(ctx) ==
    IF ctx \in {"None", "HTML"} THEN NewParsing(ctx)
    ELSE [NewParsing(ctx) EXCEPT !.pc = "returned", !.tree = FALSE,
                                 !.err = "template/parser: invalid context"]

Running(p) == p.pc = "tokens"

Parent(p) == p.ancestors[Len(p.ancestors)]

Pop(p) == [p EXCEPT !.ancestors = SubSeq(@, 1, Len(@) - 1)]

Push(p, kind) ==
    [p EXCEPT !.ancestors =
        Append(@, [NewNode(kind) EXCEPT
                      !.base = IF Parent(p).node = "If" THEN Parent(p).base
                               ELSE Len(p.ancestors)])]

\* panic(&Error{...}) caught by the deferred function of ParseSource, or
\* return nil, &Error{...}: tree = nil, err = e.
Recovered(p, msg) ==
    [p EXCEPT !.pc = "returned", !.tree = FALSE, !.nodes = <<>>, !.err = msg]

\* A panic whose value is not an *Error: the deferred function panics
\* again with it.
Repanicked(p, r) ==
    [p EXCEPT !.pc = "panicked", !.tree = FALSE, !.nodes = <<>>, !.err = r]

\* return tree, nil
SourceEnds(p) == [p EXCEPT !.pc = "returned"]

\* addChild(parent, node), parent being the last ancestor of p.
addChild(p, node) ==
    LET n == Parent(p)
        top == Len(p.ancestors)
    IN CASE n.node = "Tree" -> [p EXCEPT !.nodes = Append(@, node)]
         [] n.node \in {"URL", "Macro", "For", "ForRange", "Block"} -> p
         [] n.node = "If" ->
                IF n.else THEN Repanicked(p, "child already added to if node")
                ELSE [p EXCEPT !.ancestors[top].else = TRUE]
         [] n.node \in {"Switch", "TypeSwitch"} ->
                IF node = "Case" THEN [p EXCEPT !.ancestors[top].cases = @ + 1]
                ELSE IF n.cases = 0 THEN Repanicked(p, "runtime error: index out of range")
                ELSE p
         [] OTHER -> Repanicked(p, "template/parser: unexpected parent node")

\* for { if parent is *ast.If { pop } else { break } }
RECURSIVE PopIfs(_)
PopIfs(p) == IF Parent(p).node = "If" THEN PopIfs(Pop(p)) ELSE p

\* Some ancestor but the root has one of the types.
HasAncestor(p, types) == \E i \in 2..Len(p.ancestors) : p.ancestors[i].node \in types

tokenFor(p, tok) ==
    IF ~tok.ok THEN Recovered(p, "unexpected token, expecting expression or %}")
    ELSE LET q == addChild(p, tok.form)
         IN IF Running(q) THEN Push(q, tok.form) ELSE q

BreakAnywhere(p, tok) ==
    IF ~tok.ok THEN Recovered(p, "unexpected token, expecting %}")
    ELSE addChild(p, "Break")

tokenBreak(p, tok) ==
    IF ~HasAncestor(p, {"For", "ForRange", "Switch"})
    THEN Recovered(p, "break is not in a loop or switch")
    ELSE IF ~tok.ok THEN Recovered(p, "unexpected token, expecting %}")
    ELSE addChild(p, "Break")

tokenContinue(p, tok) ==
    IF ~HasAncestor(p, {"For", "ForRange"})
    THEN Recovered(p, "continue is not in a loop")
    ELSE IF ~tok.ok THEN Recovered(p, "unexpected token, expecting %}")
    ELSE addChild(p, "Continue")

tokenSwitch(p, tok) ==
    IF ~tok.ok THEN Recovered(p, "unexpected token")
    ELSE LET q == addChild(p, tok.form)
         IN IF Running(q) THEN Push(q, tok.form) ELSE q

tokenCase(p, tok) ==
    IF Parent(p).node \notin {"Switch", "TypeSwitch"} THEN Recovered(p, "unexpected case")
    ELSE IF ~tok.ok THEN Recovered(p, "unexpected token, expecting %}")
    ELSE addChild(p, "Case")

tokenIf(p, tok) ==
    IF ~tok.ok THEN Recovered(p, "unexpected token, expecting expression")
    ELSE LET q == addChild(p, "If")
         IN IF Running(q) THEN Push(Push(q, "If"), "Block") ELSE q

tokenElse(p, tok) ==
    LET q == IF p.ctx = "None" THEN p ELSE Pop(p)
    IN IF p.ctx = "None" /\ Len(p.ancestors) = 1 THEN Recovered(p, "unexpected else")
       ELSE IF p.ctx # "None" /\ Parent(p).node # "Block" THEN Recovered(p, "unexpected else")
       ELSE IF Parent(q).node # "If" THEN Recovered(q, "unexpected else at end of statement")
       ELSE CASE tok.form = "else" ->
                     LET r == addChild(q, "Block")
                     IN IF Running(r) THEN Push(r, "Block") ELSE r
              [] tok.form = "else if" -> tokenIf(q, tok)
              [] OTHER -> Recovered(q, "unexpected token, expecting if or %}")

tokenRightBraces(p, tok) ==
    IF p.ctx # "None" THEN Recovered(p, "unexpected }")
    ELSE IF Len(p.ancestors) = 1 THEN Recovered(p, "not opened brace")
    ELSE LET q == Pop(p)
         IN CASE tok.form = ";" -> PopIfs(q)
              [] tok.form = "EOF" -> SourceEnds(q)
              [] tok.form \in {"else", "else if"} -> tokenElse(q, tok)
              [] OTHER -> Recovered(q, "unexpected token at end of statement")

tokenInclude(p, tok) ==
    IF p.ctx = "None" THEN Recovered(p, "include statement not in template")
    ELSE IF p.isExtended /\ ~p.isInMacro THEN Recovered(p, "include statement outside macro")
    ELSE IF tok.form = "missing" THEN Recovered(p, "unexpected token, expecting string")
    ELSE IF tok.form = "invalid" THEN Repanicked(p, "invalid path")
    ELSE IF ~tok.ok THEN Recovered(p, "unexpected token, expecting ( or %}")
    ELSE addChild(p, "Include")

tokenShow(p, tok) ==
    IF p.ctx = "None" THEN Recovered(p, "show statement not in template")
    ELSE IF p.isExtended /\ ~p.isInMacro THEN Recovered(p, "show statement outside macro")
    ELSE IF ~tok.ok THEN Recovered(p, "unexpected token, expecting ( or %}")
    ELSE addChild(p, "ShowMacro")

\* The test of the root's children left out.
ExtendsAnywhere(p, tok) ==
    IF p.ctx = "None" THEN Recovered(p, "extends statement not in template")
    ELSE IF p.isExtended THEN Recovered(p, "extends already exists")
    ELSE IF tok.form = "missing" THEN Recovered(p, "unexpected token, expecting string")
    ELSE IF tok.form = "invalid" THEN Recovered(p, "invalid extends path")
    ELSE IF ~tok.ok THEN Recovered(p, "unexpected token, expecting %}")
    ELSE LET q == addChild(p, "Extends")
         IN IF Running(q) THEN [q EXCEPT !.isExtended = TRUE] ELSE q

tokenExtends(p, tok) ==
    IF p.ctx = "None" THEN Recovered(p, "extends statement not in template")
    ELSE IF p.isExtended THEN Recovered(p, "extends already exists")
    ELSE IF Len(p.nodes) > 0 /\ (p.nodes[1] # "Text" \/ Len(p.nodes) > 1)
    THEN Recovered(p, "extends can only be the first statement")
    ELSE IF tok.form = "missing" THEN Recovered(p, "unexpected token, expecting string")
    ELSE IF tok.form = "invalid" THEN Recovered(p, "invalid extends path")
    ELSE IF ~tok.ok THEN Recovered(p, "unexpected token, expecting %}")
    ELSE LET q == addChild(p, "Extends")
         IN IF Running(q) THEN [q EXCEPT !.isExtended = TRUE] ELSE q

\* The cases ast.For and ast.ForRange of the loop over the ancestors name
\* the struct types, and the ancestors hold pointers: they match nothing.
tokenImport(p, tok) ==
    IF HasAncestor(p, {"If", "Macro"}) THEN Recovered(p, "unexpected import")
    ELSE IF tok.form = "missing" THEN Repanicked(p, "unexpected token, expecting string")
    ELSE IF tok.form = "invalid" THEN Repanicked(p, "invalid import path")
    ELSE IF ~tok.ok THEN Recovered(p, "unexpected token, expecting %}")
    ELSE addChild(p, "Import")

tokenMacro(p, tok) ==
    IF p.ctx = "None" THEN Recovered(p, "macro statement not in template")
    ELSE IF HasAncestor(p, {"If", "Macro"}) THEN Recovered(p, "unexpected macro")
    ELSE IF ~tok.ok THEN Recovered(p, "unexpected token, expecting identifier")
    ELSE LET q == addChild(p, "Macro")
         IN IF Running(q) THEN [Push(q, "Macro") EXCEPT !.isInMacro = TRUE] ELSE q

\* An end that pops the last ancestor only.
EndPopsOne(p, tok) ==
    IF p.ctx = "None" THEN Recovered(p, "end statement not in template")
    ELSE IF Parent(p).node = "URL" \/ Len(p.ancestors) = 1 THEN Recovered(p, "unexpected end")
    ELSE IF ~tok.ok THEN Recovered(p, "unexpected token, expecting %}")
    ELSE Pop(p)

tokenEnd(p, tok) ==
    IF p.ctx = "None" THEN Recovered(p, "end statement not in template")
    ELSE IF Parent(p).node = "URL" \/ Len(p.ancestors) = 1 THEN Recovered(p, "unexpected end")
    ELSE LET q == IF Parent(p).node = "Block" THEN Pop(p) ELSE p
         IN IF ~tok.ok THEN Recovered(q, "unexpected token, expecting %}")
            ELSE IF tok.form # "" /\ Parent(q).node = "If" /\ tok.form # "if"
            THEN Recovered(q, "unexpected token, expecting if or %}")
            ELSE IF tok.form # "" /\ Parent(q).node = "Macro" /\ tok.form # "macro"
            THEN Recovered(q, "unexpected token, expecting macro or %}")
            ELSE LET r == PopIfs(Pop(q))
                 IN IF Parent(r).node = "Macro" THEN [r EXCEPT !.isInMacro = FALSE] ELSE r

\* The default case: an expression or an assignment.
tokenExpression(p, tok) ==
    IF ~tok.ok THEN Recovered(p, "unexpected token")
    ELSE addChild(p, "Expression")

\* The parent is a switch that has no case yet.
SwitchWithoutCases(p) ==
    Parent(p).node \in {"Switch", "TypeSwitch"} /\ Parent(p).cases = 0

parseStatement(p, tok) ==
    IF SwitchWithoutCases(p) /\ tok.typ \notin {"case", "default", "end"}
    THEN Recovered(p, "unexpected token, expecting case of default or {% end %}")
    ELSE CASE tok.typ = "for" -> tokenFor(p, tok)
           [] tok.typ = "break" -> tokenBreak(p, tok)
           [] tok.typ = "continue" -> tokenContinue(p, tok)
           [] tok.typ = "switch" -> tokenSwitch(p, tok)
           [] tok.typ = "case" -> tokenCase(p, tok)
           [] tok.typ = "}" -> tokenRightBraces(p, tok)
           [] tok.typ = "else" -> tokenElse(p, tok)
           [] tok.typ = "if" -> tokenIf(p, tok)
           [] tok.typ = "include" -> tokenInclude(p, tok)
           [] tok.typ = "show" -> tokenShow(p, tok)
           [] tok.typ = "extends" -> tokenExtends(p, tok)
           [] tok.typ = "import" -> tokenImport(p, tok)
           [] tok.typ = "macro" -> tokenMacro(p, tok)
           [] tok.typ = "end" -> tokenEnd(p, tok)
           [] OTHER -> tokenExpression(p, tok)

CanRead == parsing # <<>> /\ parsing.pc = "tokens" /\ parsing.n < MaxTokens

Consumed(tok, q) == [q EXCEPT !.n = parsing.n + 1, !.last = tok]

\* case tokenEOF of both loops, and the return after the loop.
TokenEOF ==
    /\ parsing # <<>> /\ parsing.pc = "tokens"
    /\ parsing' = Consumed([NoToken EXCEPT !.typ = "EOF"],
                     IF Len(parsing.ancestors) > 1
                     THEN Recovered(parsing, "unexpected EOF")
                     ELSE SourceEnds(parsing))
    /\ UNCHANGED <<parserVars, builderVars, lookup, texts>>

\* The tokens end without an EOF and the lexer holds an error.
LexerError ==
    /\ parsing # <<>> /\ parsing.pc = "tokens"
    /\ parsing' = Recovered(parsing, "lexer error")
    /\ UNCHANGED <<parserVars, builderVars, lookup, texts>>

\* case tokenText; spaces says that the text holds only spaces.
TokenText(spaces) ==
    /\ CanRead /\ parsing.ctx # "None"
    /\ parsing' = Consumed([NoToken EXCEPT !.typ = "Text"],
                     IF Parent(parsing).node = "Switch" /\ Parent(parsing).cases = 0
                     THEN IF spaces THEN parsing
                          ELSE Recovered(parsing, "unexpected text, expecting case of default or {% end %}")
                     ELSE addChild(parsing, "Text"))
    /\ UNCHANGED <<parserVars, builderVars, lookup, texts>>

\* case tokenStartValue
TokenStartValue(ok) ==
    /\ CanRead /\ parsing.ctx # "None"
    /\ parsing' = Consumed([NoToken EXCEPT !.typ = "Value", !.ok = ok],
                     IF parsing.isExtended /\ ~parsing.isInMacro
                     THEN Recovered(parsing, "value statement outside macro")
                     ELSE IF ~ok THEN Recovered(parsing, "expecting expression")
                     ELSE addChild(parsing, "Value"))
    /\ UNCHANGED <<parserVars, builderVars, lookup, texts>>

\* case tokenComment
TokenComment ==
    /\ CanRead /\ parsing.ctx # "None"
    /\ parsing' = Consumed([NoToken EXCEPT !.typ = "Comment"], addChild(parsing, "Comment"))
    /\ UNCHANGED <<parserVars, builderVars, lookup, texts>>

\* case tokenStartStatement, and every token but EOF of a source read in
\* ContextNone.
Statement(tok) ==
    /\ CanRead
    /\ parsing' = Consumed(tok, parseStatement(parsing, tok))
    /\ UNCHANGED <<parserVars, builderVars, lookup, texts>>

InitSource ==
    /\ WorkersIdle /\ BuilderIdle
    /\ lookup = <<>>
    /\ texts = <<>>
    /\ \E ctx \in Contexts : parsing = ParseSource(ctx)

NextSource ==
    \/ TokenEOF
    \/ LexerError
    \/ \E spaces \in BOOLEAN : TokenText(spaces)
    \/ \E ok \in BOOLEAN : TokenStartValue(ok)
    \/ TokenComment
    \/ \E tok \in Tokens("for") : Statement(tok)
    \/ \E tok \in Tokens("break") : Statement(tok)
    \/ \E tok \in Tokens("continue") : Statement(tok)
    \/ \E tok \in Tokens("switch") : Statement(tok)
    \/ \E tok \in Tokens("case") : Statement(tok)
    \/ \E tok \in Tokens("}") : Statement(tok)
    \/ \E tok \in Tokens("else") : Statement(tok)
    \/ \E tok \in Tokens("if") : Statement(tok)
    \/ \E tok \in Tokens("include") : Statement(tok)
    \/ \E tok \in Tokens("show") : Statement(tok)
    \/ \E tok \in Tokens("extends") : Statement(tok)
    \/ \E tok \in Tokens("import") : Statement(tok)
    \/ \E tok \in Tokens("macro") : Statement(tok)
    \/ \E tok \in Tokens("end") : Statement(tok)
    \/ \E tok \in Tokens("expression") : Statement(tok)

SpecSource == InitSource /\ [][NextSource]_vars

\* C21: ParseSource returns a tree and a nil error, or a nil tree and an
\* error, and no panic leaves it.
C21_ReturnsTreeOrError ==
    parsing # <<>> =>
       /\ parsing.pc # "panicked"
       /\ parsing.pc = "returned" =>
              \/ parsing.tree /\ parsing.err = "nil"
              \/ ~parsing.tree /\ parsing.err # "nil"

\* This step reads a token of one of the types.
Reads(types) ==
    /\ parsing # <<>> /\ parsing.pc = "tokens"
    /\ parsing'.n = parsing.n + 1
    /\ parsing'.last.typ \in types

\* The token read last was accepted: the loop goes on.
Accepted(p) == p.pc = "tokens"

\* The token read last made ParseSource return the error.
RejectedWith(p, msg) == p.pc = "returned" /\ ~p.tree /\ p.err = msg

\* No extends was parsed and the root has no child or a single Text child.
ExtendsAllowed(p) == ~p.isExtended /\ (p.nodes = <<>> \/ p.nodes = <<"Text">>)

\* C22 as stated, for a template: extends is accepted only if no extends
\* came before and the root has no child or a single Text child, and in
\* every other state parsing fails with 'extends already exists' or
\* 'extends can only be the first statement'.
C22_ExtendsFailsWithOneOfTwo ==
    [][(Reads({"extends"}) /\ parsing.ctx # "None") =>
          /\ Accepted(parsing') => ExtendsAllowed(parsing)
          /\ ~ExtendsAllowed(parsing) =>
                \/ RejectedWith(parsing', "extends already exists")
                \/ RejectedWith(parsing', "extends can only be the first statement")]_vars

\* C22: extends is accepted only in a template whose root has no child or
\* a single Text child and which holds no earlier extends.  In every other
\* state parsing fails: directly inside a switch without cases with the
\* error of that switch, else in ContextNone with 'extends statement not
\* in template', else with 'extends already exists' after an earlier
\* extends, else with 'extends can only be the first statement'.
C22_ExtendsOnlyFirst ==
    [][Reads({"extends"}) =>
          /\ Accepted(parsing') => ExtendsAllowed(parsing) /\ parsing.ctx # "None"
          /\ ~ExtendsAllowed(parsing) =>
                RejectedWith(parsing',
                    IF SwitchWithoutCases(parsing)
                    THEN "unexpected token, expecting case of default or {% end %}"
                    ELSE IF parsing.ctx = "None" THEN "extends statement not in template"
                    ELSE IF parsing.isExtended THEN "extends already exists"
                    ELSE "extends can only be the first statement")]_vars

\* An extends that follows a text has been accepted.
C22_Witness ==
    /\ parsing # <<>> /\ parsing.last.typ = "extends"
    /\ Accepted(parsing) /\ parsing.isExtended
    /\ parsing.nodes = <<"Text", "Extends">>

Breakable == {"For", "ForRange", "Switch"}

Loops == {"For", "ForRange"}

\* C23 as stated: a break is accepted exactly when an ancestor but the
\* root is a For, a ForRange or a Switch, a continue exactly when one is a
\* For or a ForRange; otherwise parsing fails with 'break is not in a loop
\* or switch' or 'continue is not in a loop'; the ancestors are the same
\* after the statement in either case.
C23_BreakIffInLoopOrSwitch ==
    [][/\ (Reads({"break"}) /\ parsing'.last.ok) =>
             /\ Accepted(parsing') <=> HasAncestor(parsing, Breakable)
             /\ ~HasAncestor(parsing, Breakable) =>
                    RejectedWith(parsing', "break is not in a loop or switch")
             /\ parsing'.ancestors = parsing.ancestors
       /\ (Reads({"continue"}) /\ parsing'.last.ok) =>
             /\ Accepted(parsing') <=> HasAncestor(parsing, Loops)
             /\ ~HasAncestor(parsing, Loops) =>
                    RejectedWith(parsing', "continue is not in a loop")
             /\ parsing'.ancestors = parsing.ancestors]_vars

\* C23: unless the innermost ancestor is a switch without cases, a break is
\* accepted exactly when an ancestor but the root is a For, a ForRange or
\* a Switch, and a continue exactly when one is a For or a ForRange;
\* otherwise parsing fails with 'break is not in a loop or switch' or
\* 'continue is not in a loop'.  Directly inside a switch without cases
\* both fail with the error of that switch.  The ancestors are the same
\* after the statement in every case.
C23_BreakIffInLoopOrSwitchWithCases ==
    [][/\ (Reads({"break"}) /\ parsing'.last.ok /\ ~SwitchWithoutCases(parsing)) =>
             /\ Accepted(parsing') <=> HasAncestor(parsing, Breakable)
             /\ ~HasAncestor(parsing, Breakable) =>
                    RejectedWith(parsing', "break is not in a loop or switch")
       /\ (Reads({"continue"}) /\ parsing'.last.ok /\ ~SwitchWithoutCases(parsing)) =>
             /\ Accepted(parsing') <=> HasAncestor(parsing, Loops)
             /\ ~HasAncestor(parsing, Loops) =>
                    RejectedWith(parsing', "continue is not in a loop")
       /\ (Reads({"break", "continue"}) /\ SwitchWithoutCases(parsing)) =>
             RejectedWith(parsing', "unexpected token, expecting case of default or {% end %}")
       /\ Reads({"break", "continue"}) => parsing'.ancestors = parsing.ancestors]_vars

\* A break has been accepted in a case of a switch that is in no loop.
C23_Witness ==
    /\ parsing # <<>> /\ parsing.last.typ = "break" /\ Accepted(parsing)
    /\ HasAncestor(parsing, {"Switch"}) /\ ~HasAncestor(parsing, Loops)

\* C25: after an end has closed a Macro node isInMacro is false, and
\* isInMacro is true as long as a Macro node is among the ancestors.
C25_EndOfMacroClearsIsInMacro ==
    [][/\ (Reads({"end"}) /\ Accepted(parsing') /\ Parent(parsing).node = "Macro") =>
             ~parsing'.isInMacro
       /\ (parsing' # <<>> /\ Accepted(parsing') /\ HasAncestor(parsing', {"Macro"})) =>
             parsing'.isInMacro]_vars

\* C26: once an extends has been parsed, a well-formed value, include or
\* show is accepted exactly when a Macro node is among the ancestors, and
\* is rejected with '... outside macro' when none is.
C26_ValueOnlyInsideMacro ==
    [][(/\ Reads({"Value", "include", "show"})
        /\ parsing.isExtended
        /\ parsing'.last.ok /\ parsing'.last.form \in {"", "valid"}
        /\ ~SwitchWithoutCases(parsing)) =>
          /\ Accepted(parsing') <=> HasAncestor(parsing, {"Macro"})
          /\ ~HasAncestor(parsing, {"Macro"}) =>
                \E s \in {"value", "include", "show"} :
                    RejectedWith(parsing', s \o " statement outside macro")]_vars

\* C32: in a template an accepted end leaves the ancestors as they were
\* before the statement that opened the innermost open construct: the
\* for, switch or macro, or the Blocks and every If of an if chain, are
\* popped together and nothing below them is.
C32_EndClosesWholeConstruct ==
    [][(Reads({"end"}) /\ Accepted(parsing')) =>
          parsing'.ancestors = SubSeq(parsing.ancestors, 1, Parent(parsing).base)]_vars

\* An end has closed an if at the top of a template: its Block and its If
\* are gone and the root is the only ancestor.
C32_Witness ==
    /\ parsing # <<>> /\ parsing.last.typ = "end" /\ Accepted(parsing)
    /\ parsing.nodes = <<"If">>
    /\ Len(parsing.ancestors) = 1

Containers == {"For", "ForRange", "Switch", "TypeSwitch", "Macro", "Block"}

\* C33: the ancestors are never empty and start with the root Tree;
\* ParseSource returns a tree only when no for, switch, macro or block is
\* left open; an end or a } read while the root is the only ancestor
\* makes ParseSource return an error.
C33_RootAtBottomAndClosedAtEOF ==
    [][/\ parsing' # <<>> =>
             /\ parsing'.ancestors # <<>>
             /\ parsing'.ancestors[1].node = "Tree"
             /\ (parsing'.pc = "returned" /\ parsing'.tree) =>
                    ~HasAncestor(parsing', Containers)
       /\ (Reads({"end", "}"}) /\ Len(parsing.ancestors) = 1) =>
             (parsing'.pc = "returned" /\ ~parsing'.tree /\ parsing'.err # "nil")]_vars

\* The node an end closes: the last ancestor, or the If of a last Block.
Closing(p) ==
    IF Parent(p).node = "Block" THEN p.ancestors[Len(p.ancestors) - 1].node
    ELSE Parent(p).node

Keyword(kind) ==
    CASE kind \in {"For", "ForRange"} -> "for"
      [] kind = "If" -> "if"
      [] kind = "Macro" -> "macro"
      [] OTHER -> "none"

\* C34: an end that names a keyword is accepted only if the keyword is
\* the one of the container it closes; with another keyword parsing fails
\* with a syntax error.
C34_EndKeywordMatches ==
    [][(/\ Reads({"end"}) /\ parsing'.last.form # "" /\ parsing'.last.ok
        /\ parsing.ctx # "None" /\ Len(parsing.ancestors) > 1) =>
          IF parsing'.last.form = Keyword(Closing(parsing))
          THEN Accepted(parsing')
          ELSE parsing'.pc = "returned" /\ ~parsing'.tree]_vars

(***************************************************************************)
(* Further claims about Parse and parsePath (Spec).                        *)
(***************************************************************************)

\* The paths of the parsePath calls that enclose the innermost one of w.
EnclosingPaths(w) == [j \in 1..(Len(stack[w]) - 1) |-> stack[w][j].key[1]]

\* C35: when a parsePath call returns, with a tree or with an error, the
\* path stack is the one the call was made with, which holds the paths of
\* the enclosing calls.
C35_PathStackRestored ==
    \A w \in Workers :
        /\ pc[w] = "parsePath" => paths[w] = EnclosingPaths(w)
        /\ pc[w] = "return" => paths[w] = EnclosingPaths(w)

\* The absolute path a directive n written in file names, <<>> if invalid.
Named(file, n) ==
    IF Head(n.path) = "/" THEN toAbsolutePath(<<"/">>, Tail(n.path))
    ELSE toAbsolutePath(Dir(file), n.path)

\* A directive of file names a source that does not exist.
NamesMissingFile(file) ==
    \E n \in Directives(fs[file].nodes) :
        /\ ~(impl = "program" /\ n.path \in packages)
        /\ Named(file, n) # <<>>
        /\ Target(impl, Named(file, n)[1]) \notin DOMAIN fs

\* The violation a syntax error e reports lies in the file e.Path names.
\* The syntax errors of the sources a Parser reads through its Reader are
\* left out: the Reader makes them.  So is the error of Parse for a
\* program without nodes.
PathOfViolation(e) ==
    CASE e.msg = "syntax" ->
             impl = "parser" \/ (e.path \in DOMAIN fs /\ fs[e.path].bad)
      [] e.msg \in {"path does not exist", "cannot find package"} ->
             e.path \in DOMAIN fs /\ NamesMissingFile(e.path)
      [] e.msg = "can not have extends" ->
             /\ e.path \in DOMAIN fs
             /\ \E n \in Directives(fs[e.path].nodes) : n.kind = "Extends"
      [] OTHER -> TRUE

\* C36: a syntax error that Parse returns carries the path of the file in
\* which the violation lies: the file whose source has the syntax error,
\* the file that holds the directive naming a missing file, the file that
\* holds the misplaced extends.
C36_SyntaxErrorNamesItsFile ==
    \A w \in Workers :
        (pc[w] = "idle" /\ outcome[w].err.kind = "Syntax") =>
            PathOfViolation(outcome[w].err)

\* The caches in use: one per worker for ParseTemplate, else the shared one.
Caches == IF impl = "template" THEN Workers ELSE {"shared"}

\* Every directive of tree t but the imports of predefined packages has a
\* Tree, and the tree of the file it names is among the trees m of a cache.
ExpandedIn(m, t) ==
    \A n \in Directives(fs[t.path].nodes) :
        \/ impl = "program" /\ n.kind = "Import" /\ n.path \in packages
        \/ /\ t.links[n.id] # Nil
           /\ Key(t.links[n.id][1].path, t.links[n.id][1].ctx) \in DOMAIN m

\* A parsePath of w that has failed releases its reservation in this step.
FailedDone(w) ==
    /\ pc[w] = "done" /\ pc'[w] # "done"
    /\ ret[w].err.kind # "nil"

\* C38: every tree in a cache is expanded, the trees of the files it
\* extends, imports or includes being in the cache too, and a parsePath
\* that fails leaves no tree for its key in the cache.
C38_AddAfterExpansion ==
    [][/\ \A c \in Caches : \A k \in DOMAIN trees'[c] :
              AllLinkedButNative(trees'[c][k]) /\ ExpandedIn(trees'[c], trees'[c][k])
       /\ \A w \in Workers :
              FailedDone(w) => Top(w).key \notin DOMAIN trees'[CacheOf(w)]]_vars

\* The cache holds the tree of /a of FsNested, whose directives are at the
\* top level, in a macro and in a for-range body.
C38_Witness ==
    /\ fs = FsNested
    /\ Key(PathA, "HTML") \in DOMAIN trees["shared"]
    /\ Key(PathB, "HTML") \in DOMAIN trees["shared"]

\* C39: two Parse calls of a Parser for the same path have the same
\* outcome, a tree or the same kind of error, whatever the cache held
\* when they were made.
C39_OutcomeIndependentOfCache ==
    \A v, w \in Workers :
        (/\ impl # "template"
         /\ pc[v] = "idle" /\ pc[w] = "idle"
         /\ calls[v] > 0 /\ calls[w] > 0
         /\ outcome[v].path = outcome[w].path) =>
            /\ (outcome[v].tree = Nil) = (outcome[w].tree = Nil)
            /\ outcome[v].err.kind = outcome[w].err.kind

(***************************************************************************)
(* cutSpaces (src/parser/parser.go).                                       *)
(***************************************************************************)

\* Longest Text of a node.
MaxText == 3

Chars == {" ", "\t", "\r", "\n", "x"}

Spaces == {" ", "\t", "\r"}

Strings == UNION {[1..n -> Chars] : n \in 0..MaxText}

\* ast.NewText(pos, txt, cut)
NewText(txt, left, right) == [Text |-> txt, Cut |-> [Left |-> left, Right |-> right]]

\* The loop over first.Text, from its end: ok is false when it meets a
\* character that is not a space, cut is firstCut.
RECURSIVE ScanFirst(_, _)
ScanFirst(txt, i) ==
    IF i = 0 THEN [ok |-> TRUE, cut |-> 0]
    ELSE IF txt[i] = "\n" THEN [ok |-> TRUE, cut |-> i]
    ELSE IF txt[i] \notin Spaces THEN [ok |-> FALSE, cut |-> 0]
    ELSE ScanFirst(txt, i - 1)

\* The loop over last.Text, from its start: cut is lastCut.
RECURSIVE ScanLast(_, _)
ScanLast(txt, i) ==
    IF i > Len(txt) THEN [ok |-> TRUE, cut |-> Len(txt)]
    ELSE IF txt[i] = "\n" THEN [ok |-> TRUE, cut |-> i]
    ELSE IF txt[i] \notin Spaces THEN [ok |-> FALSE, cut |-> 0]
    ELSE ScanLast(txt, i + 1)

\* A cutSpaces that cuts the newline before the line too.
CutsNewlineBefore(first, last) ==
    IF first # Nil /\ ~ScanFirst(first[1].Text, Len(first[1].Text)).ok
    THEN [first |-> first, last |-> last]
    ELSE IF last # Nil /\ ~ScanLast(last[1].Text, 1).ok
    THEN [first |-> first, last |-> last]
    ELSE [first |-> IF first = Nil THEN Nil
                    ELSE LET c == ScanFirst(first[1].Text, Len(first[1].Text)).cut
                         IN <<[first[1] EXCEPT !.Cut.Right =
                                 Len(first[1].Text) - (IF c > 0 THEN c - 1 ELSE 0)]>>,
          last |-> IF last = Nil THEN Nil
                   ELSE <<[last[1] EXCEPT !.Cut.Left = ScanLast(last[1].Text, 1).cut]>>]

\* cutSpaces(first, last): the two nodes after the call; a nil node is
\* <<>>, a node t is <<t>>.
cutSpaces(first, last) ==
    IF first # Nil /\ ~ScanFirst(first[1].Text, Len(first[1].Text)).ok
    THEN [first |-> first, last |-> last]
    ELSE IF last # Nil /\ ~ScanLast(last[1].Text, 1).ok
    THEN [first |-> first, last |-> last]
    ELSE [first |-> IF first = Nil THEN Nil
                    ELSE <<[first[1] EXCEPT !.Cut.Right =
                              Len(first[1].Text)
                              - ScanFirst(first[1].Text, Len(first[1].Text)).cut]>>,
          last |-> IF last = Nil THEN Nil
                   ELSE <<[last[1] EXCEPT !.Cut.Left = ScanLast(last[1].Text, 1).cut]>>]

\* The first Text of a line may be the last Text of the line before, whose
\* left cut an earlier call has set; the last Text of a line is new.
InitTexts ==
    /\ WorkersIdle /\ BuilderIdle
    /\ parsing = <<>> /\ lookup = <<>>
    /\ \E first \in {Nil} \cup {<<NewText(s, l, 0)>> : s \in Strings, l \in 0..1},
          last \in {Nil} \cup {<<NewText(s, 0, 0)>> : s \in Strings} :
          /\ first # Nil => first[1].Cut.Left <= Len(first[1].Text)
          /\ texts = [first |-> first, last |-> last, was |-> <<>>]

\* if p.cutSpacesToken && tokensInLine == 1 { cutSpaces(firstText, text) };
\* was keeps the nodes as they were before the call.
CutSpaces ==
    /\ texts # <<>> /\ texts.was = <<>>
    /\ texts' = [cutSpaces(texts.first, texts.last) @@ [was |-> <<>>] EXCEPT
                    !.was = <<[first |-> texts.first, last |-> texts.last]>>]
    /\ UNCHANGED <<parserVars, builderVars, parsing, lookup>>

NextTexts == CutSpaces

SpecTexts == InitTexts /\ [][NextTexts]_vars

\* The place of the last newline of txt, 0 if it has none.
LastNewline(txt) ==
    IF \E i \in 1..Len(txt) : txt[i] = "\n"
    THEN CHOOSE i \in 1..Len(txt) :
            txt[i] = "\n" /\ \A j \in (i + 1)..Len(txt) : txt[j] # "\n"
    ELSE 0

\* The place of the first newline of txt, 0 if it has none.
FirstNewline(txt) ==
    IF \E i \in 1..Len(txt) : txt[i] = "\n"
    THEN CHOOSE i \in 1..Len(txt) :
            txt[i] = "\n" /\ \A j \in 1..(i - 1) : txt[j] # "\n"
    ELSE 0

\* The part of the first Text that lies on the line, and the part of the
\* last Text; a nil node has none.
HeadPart(first) ==
    IF first = Nil THEN <<>>
    ELSE SubSeq(first[1].Text, LastNewline(first[1].Text) + 1, Len(first[1].Text))

TailPart(last) ==
    IF last = Nil THEN <<>>
    ELSE IF FirstNewline(last[1].Text) = 0 THEN last[1].Text
    ELSE SubSeq(last[1].Text, 1, FirstNewline(last[1].Text) - 1)

OnlySpaces(txt) == \A i \in 1..Len(txt) : txt[i] \in Spaces

\* The line of the call is blank but for its directive.
BlankLine(was) == OnlySpaces(HeadPart(was.first)) /\ OnlySpaces(TailPart(was.last))

\* The left cut of the last Text: the spaces after the directive and the
\* newline that ends the line.
TailCut(was) ==
    IF FirstNewline(was.last[1].Text) = 0 THEN Len(was.last[1].Text)
    ELSE FirstNewline(was.last[1].Text)

\* C37 as stated: on a blank line the right cut of the first Text covers
\* the spaces before the directive and the newline before them, the left
\* cut of the last Text the spaces after the directive and the newline
\* after them; on any other line no Cut changes.
C37_CutsIncludeBothNewlines ==
    (texts # <<>> /\ texts.was # <<>>) =>
       LET was == texts.was[1] IN
       IF BlankLine(was)
       THEN /\ was.first # Nil =>
                  texts.first[1].Cut.Right =
                     Len(HeadPart(was.first))
                     + (IF LastNewline(was.first[1].Text) > 0 THEN 1 ELSE 0)
            /\ was.last # Nil => texts.last[1].Cut.Left = TailCut(was)
       ELSE texts.first = was.first /\ texts.last = was.last

\* C37: on a blank line the right cut of the first Text covers the spaces
\* before the directive, and not the newline before them; the left cut of
\* the last Text covers the spaces after the directive and the newline
\* after them.  The other cut and the text of each node stay.  On any
\* other line neither node changes.
C37_CutsSpacesAndNextNewline ==
    (texts # <<>> /\ texts.was # <<>>) =>
       LET was == texts.was[1] IN
       IF BlankLine(was)
       THEN /\ was.first # Nil =>
                  texts.first =
                     <<[was.first[1] EXCEPT !.Cut.Right = Len(HeadPart(was.first))]>>
            /\ was.last # Nil =>
                  texts.last = <<[was.last[1] EXCEPT !.Cut.Left = TailCut(was)]>>
            /\ (was.first = Nil) = (texts.first = Nil)
            /\ (was.last = Nil) = (texts.last = Nil)
       ELSE texts.first = was.first /\ texts.last = was.last

\* cutSpaces has been called for a line of two spaces, the directive, a
\* space and a newline, that follows a line x: two characters are cut on
\* the right of the first Text and two on the left of the last.
C37_Witness ==
    /\ texts # <<>> /\ texts.was # <<>>
    /\ texts.was[1].first # Nil /\ texts.was[1].last # Nil
    /\ texts.was[1].first[1].Text = <<"x", "\n", " ">>
    /\ texts.was[1].last[1].Text = <<" ", "\n", "x">>
    /\ texts.first[1].Cut.Right = 1
    /\ texts.last[1].Cut.Left = 2

(***************************************************************************)
(* SpecWords: labels, jumps and the instructions of more than one word.    *)
(***************************************************************************)

\* builder.AddLine(pc, line)
AddLine(f, addr, line) == [f EXCEPT !.Lines = MapPut(@, addr, line)]

\* A Call that appends its first word only.
CallFirstWordOnly(f, shift, line) ==
    Emit("Call", [f |-> f, shift |-> shift, line |-> line], builder,
         Unchanged(AddLine(fn, CurrentAddr(fn), line)), FALSE,
         <<Instruction(Op("OpCall", ""), f, 0, 0)>>, {}, 0)

\* Call(f, shift, line): the second word holds the four bytes of shift.
Call(f, shift, line) ==
    Emit("Call", [f |-> f, shift |-> shift, line |-> line], builder,
         Unchanged(AddLine(fn, CurrentAddr(fn), line)), FALSE,
         <<Instruction(Op("OpCall", ""), f, 0, 0),
           Instruction(shift[1], shift[2], shift[3], shift[4])>>, {}, 0)

CallNative(f, numVariadic, shift) ==
    Emit("CallNative", [f |-> f, numVariadic |-> numVariadic, shift |-> shift],
         builder, Unchanged(fn), FALSE,
         <<Instruction(Op("OpCallNative", ""), f, 0, numVariadic),
           Instruction(shift[1], shift[2], shift[3], shift[4])>>, {}, 0)

CallIndirect(f, numVariadic, shift) ==
    Emit("CallIndirect", [f |-> f, numVariadic |-> numVariadic, shift |-> shift],
         builder, Unchanged(fn), FALSE,
         <<Instruction(Op("OpCallIndirect", ""), f, 0, numVariadic),
           Instruction(shift[1], shift[2], shift[3], shift[4])>>, {}, 0)

Defer(f, numVariadic, off, args) ==
    Emit("Defer", [f |-> f, numVariadic |-> numVariadic, off |-> off, arg |-> args],
         allocRegister(builder, "Interface", f), Unchanged(fn), FALSE,
         <<Instruction(Op("OpDefer", ""), f, 0, numVariadic),
           Instruction(off[1], off[2], off[3], off[4]),
           Instruction(args[1], args[2], args[3], args[4])>>,
         {Reg("Interface", f)}, 0)

\* The stack shifts of the calls: the first byte of the second one is the
\* code of Goto.
Shifts == {<<0, 0, 0, 0>>, <<Op("OpGoto", ""), 1, 0, 0>>}

NextWords ==
    \/ NewLabel
    \/ \E label \in 1..2 : SetLabelAddr(label)
    \/ \E label \in 0..2 : Goto(label)
    \/ End
    \/ \E shift \in Shifts : Call(1, shift, 7)
    \/ CallNative(1, 0, <<0, 1, 0, 0>>)
    \/ CallIndirect(1, 0, <<1, 0, 0, 0>>)
    \/ Defer(1, 0, <<Op("OpGoto", ""), 0, 0, 0>>, <<Op("OpDefer", ""), 0, 0, 0>>)
    \/ \E len \in 0..1 : MakeSlice(FALSE, TRUE, intType, len, 0, 1)

SpecWords == InitOperations /\ [][NextWords]_vars

\* The number of words a method appends for the instruction whose first
\* word is in.
Words(in) ==
    IF in.Op \in {Op("OpCall", ""), Op("OpCallNative", ""), Op("OpCallIndirect", "")}
    THEN 2
    ELSE IF in.Op = Op("OpDefer", "") THEN 3
    ELSE IF in.Op = Op("OpMakeSlice", "") /\ in.B > 1 THEN 2
    ELSE 1

\* The addresses of the first words of the instructions of the body, read
\* from address a on.
RECURSIVE Primaries(_, _)
Primaries(f, a) ==
    IF a >= CurrentAddr(f) THEN {}
    ELSE {a} \cup Primaries(f, a + Words(InstructionAt(f, a)))

\* The addresses of the other words of the instructions of the body.
Auxiliaries(f) ==
    UNION {(a + 1)..(a + Words(InstructionAt(f, a)) - 1) : a \in Primaries(f, 0)}

\* Every jump to patch is the first word of a Goto and no label has the
\* address of a word that is not the first of its instruction.
JumpsOnFirstWords(f, b) ==
    /\ \A a \in DOMAIN b.gotos :
          a \in Primaries(f, 0) /\ InstructionAt(f, a).Op = Op("OpGoto", "")
    /\ \A l \in 1..Len(b.labels) : b.labels[l] \notin Auxiliaries(f)

\* C31: after every call, each address in gotos is the address of the first
\* word of a Goto, and no label is bound to the address of a second or
\* third word of a Call, CallNative, CallIndirect, Defer or MakeSlice; End
\* changes first words of Goto instructions only, and every word but those
\* it leaves as it was.
C31_JumpsAndLabelsOnFirstWords ==
    [][/\ JumpsOnFirstWords(fn', builder')
       /\ (result'.n = result.n + 1 /\ result'.call = "End") =>
             \A a \in DOMAIN fn.Body.ins :
                InstructionAt(fn', a) # InstructionAt(fn, a) =>
                   /\ a \in Primaries(fn, 0)
                   /\ a \notin Auxiliaries(fn)
                   /\ InstructionAt(fn, a).Op = Op("OpGoto", "")]_vars

\* lbl = NewLabel; Goto(lbl); Call, whose second word has the code of Goto
\* in its first byte; SetLabelAddr(lbl); End: the Goto at address 0 jumps to
\* address 3, past both words of the Call.
C31_Witness ==
    /\ result.call = "End" /\ result.n = 5
    /\ builder.labels = <<3>>
    /\ CurrentAddr(fn) = 3
    /\ InstructionAt(fn, 0) = WithAddr(Instruction(Op("OpGoto", ""), 0, 0, 0), 3)
    /\ InstructionAt(fn, 1).Op = Op("OpCall", "")
    /\ InstructionAt(fn, 2).Op = Op("OpGoto", "")
    /\ Auxiliaries(fn) = {2}

(***************************************************************************)
(* SpecScopes: scopes, stacks and the registers of variables.              *)
(***************************************************************************)

\* The variables of the function and the kinds of their types
\* (c.typeinfo[v].Type.Kind()).
TypeInfo == [a |-> "Int", b |-> "Int", s |-> "String"]

\* BindVarReg(name, reg), called as compileAssignmentNode calls it: with the
\* register that the NewRegister before it has returned for the kind of the
\* variable.  Without a scope the index of the last scope is out of range.
BindVarReg(name, reg) ==
    /\ CanCall
    /\ result.call = "NewRegister"
    /\ result.args.kind = TypeInfo[name]
    /\ reg = result.val
    /\ IF builder.scopes = <<>>
       THEN /\ result' = Panicked("BindVarReg", [name |-> name, reg |-> reg])
            /\ UNCHANGED builder
       ELSE /\ result' = Returned("BindVarReg", [name |-> name, reg |-> reg], 0)
            /\ builder' = [builder EXCEPT
                              !.scopes[Len(builder.scopes)] = MapPut(@, name, reg)]
    /\ UNCHANGED <<parserVars, unitVars, fn, uses, entered, bound>>

\* IsVariable(n)
IsVariable(b, n) == \E i \in 1..Len(b.scopes) : n \in DOMAIN b.scopes[i]

\* ScopeLookup(n), for a name that IsVariable: the register in the
\* innermost scope that has the name.
ScopeLookup(b, n) ==
    LET i == CHOOSE j \in 1..Len(b.scopes) :
                /\ n \in DOMAIN b.scopes[j]
                /\ \A k \in (j + 1)..Len(b.scopes) : n \notin DOMAIN b.scopes[k]
    IN b.scopes[i][n]

\* The builder inside the scope of the body of the function.
InitScopes ==
    /\ InitParserIdle
    /\ fn = NewScrigoFunction
    /\ builder = AfterEnterStack([NewBuilder EXCEPT !.scopes = <<EmptyMap>>])
    /\ entered = <<[call |-> "EnterScope", counts |-> Counts(NewBuilder)]>>
    /\ result = NoCall
    /\ uses = EmptyMap
    /\ bound = <<>>

NextScopes ==
    \/ EnterScope
    \/ ExitScope
    \/ EnterStack
    \/ ExitStack
    \/ \E kind \in {"Int", "String"} : NewRegister(kind)
    \/ \E name \in DOMAIN TypeInfo, reg \in 1..MaxCalls : BindVarReg(name, reg)

SpecScopes == InitScopes /\ [][NextScopes]_vars

\* C40: a NewRegister that returns a register of a class returns one that
\* no visible variable of that class is bound to: no name that IsVariable
\* has a type of the class and the register as its ScopeLookup.
C40_NewRegisterNotOfVisibleVariable ==
    (result.call = "NewRegister" /\ ~ result.fatal) =>
       \A n \in DOMAIN TypeInfo :
          ~ /\ IsVariable(builder, n)
            /\ RegisterKind(TypeInfo[n]) = RegisterKind(result.args.kind)
            /\ ScopeLookup(builder, n) = result.val

====
